---------------------------- MODULE Spec2Model ----------------------------
(***************************************************************************)
(* Model of the decomposed BackRooms generator: the generation             *)
(* orchestrator (Services/GenerationOrchestrator.cpp), the connection      *)
(* manager (Services/RoomConnectionManager.cpp), the collision detection   *)
(* service (Services/CollisionDetectionService.cpp), the room data types   *)
(* (Types.h) and the three generation strategies (Strategies/).            *)
(*                                                                         *)
(* Units.  Positions, connection points, wall thickness, buffers and       *)
(* connection widths are integers in Unreal units (centimetres).  Width,   *)
(* Length and Height of a room are integers in metres; Elevation is kept   *)
(* in the raw unit the code stores in FRoomData::Elevation.  Ratios and    *)
(* FRand() draws are integers in percent (FRand() in [0,1) is 0..99).      *)
(* Array indices keep the 0-based values of the code; At(s, i) reads       *)
(* element i of a TArray.                                                  *)
(***************************************************************************)
EXTENDS Integers, Sequences, FiniteSets, TLC

\* ------------------------------------------------------------------------
\* Bounds of the model
\* ------------------------------------------------------------------------
\* Largest Config.TotalRooms explored when StairRatio = 0.
MaxTotalRooms == 4

\* Largest Config.TotalRooms explored when StairRatio > 0 (each stairs
\* candidate has several directions and both signs of elevation).
MaxTotalRoomsWithStairs == 3

\* Largest Config.MaxConnectionRetries explored.
MaxRetriesBound == 2

\* Largest Config.MaxAttemptsPerConnection explored.
MaxAttemptsBound == 2

\* ------------------------------------------------------------------------
\* Program constants
\* ------------------------------------------------------------------------
METERS_TO_UNREAL_UNITS == 100

CONNECTIONS_PER_ROOM == 4

BoxWallThickness == 20

MaxDimension == 100

MaxElevation == 10000

MinSeparation == 200

INITIAL_ROOM_SIZE == 5

StandardRoomHeight == 3

DefaultDoorwayWidth == 80

WallSides == <<"North", "South", "East", "West">>

Categories == {"Room", "Hallway", "Stairs"}

\* ------------------------------------------------------------------------
\* Small helpers
\* ------------------------------------------------------------------------
At(s, i) == s[i + 1]

InRange(s, i) == i >= 0 /\ i < Len(s)

Abs(x) == IF x < 0 THEN -x ELSE x

Min2(a, b) == IF a < b THEN a ELSE b

Clamp(x, lo, hi) == IF x < lo THEN lo ELSE IF x < hi THEN x ELSE hi

MetersToUnrealUnits(m) == m * 100

Vec(x, y, z) == [X |-> x, Y |-> y, Z |-> z]

VAdd(a, b) == Vec(a.X + b.X, a.Y + b.Y, a.Z + b.Z)

ZeroVector == Vec(0, 0, 0)

\* ------------------------------------------------------------------------
\* Types.h
\* ------------------------------------------------------------------------
FRoomConnection(wall, used, point, width, type, connected) ==
    [WallSide |-> wall, bIsUsed |-> used, ConnectionPoint |-> point,
     ConnectionWidth |-> width, ConnectionType |-> type,
     ConnectedRoomIndex |-> connected]

\* FBox(Min, Max): the constructor marks every box valid.
FBox(min, max) == [Min |-> min, Max |-> max, IsValid |-> TRUE]

ExpandBy(box, w) ==
    FBox(Vec(box.Min.X - w, box.Min.Y - w, box.Min.Z - w),
         Vec(box.Max.X + w, box.Max.Y + w, box.Max.Z + w))

Intersect(a, b) ==
    /\ ~(a.Min.X > b.Max.X \/ b.Min.X > a.Max.X)
    /\ ~(a.Min.Y > b.Max.Y \/ b.Min.Y > a.Max.Y)
    /\ ~(a.Min.Z > b.Max.Z \/ b.Min.Z > a.Max.Z)

GetBoundingBox(Room) ==
    LET WallThicknessCm == BoxWallThickness
        MinZ == IF Room.Category = "Stairs"
                THEN Room.Position.Z
                ELSE Room.Position.Z + MetersToUnrealUnits(Room.Elevation)
        MaxZ == IF Room.Category = "Stairs"
                THEN Room.Position.Z + MetersToUnrealUnits(Room.Height + Room.Elevation)
                ELSE Room.Position.Z + MetersToUnrealUnits(Room.Elevation)
                     + MetersToUnrealUnits(Room.Height)
    IN FBox(Vec(Room.Position.X - WallThicknessCm,
                Room.Position.Y - WallThicknessCm, MinZ),
            Vec(Room.Position.X + MetersToUnrealUnits(Room.Width) + WallThicknessCm,
                Room.Position.Y + MetersToUnrealUnits(Room.Length) + WallThicknessCm,
                MaxZ))

GetAvailableConnections(Room) ==
    SelectSeq([i \in 1..Len(Room.Connections) |-> i - 1],
              LAMBDA i : ~At(Room.Connections, i).bIsUsed)

\* ------------------------------------------------------------------------
\* Services/CollisionDetectionService.cpp
\* ------------------------------------------------------------------------
ValidateRoomBounds(Room) ==
    /\ ~(Room.Width <= 0 \/ Room.Length <= 0 \/ Room.Height <= 0)
    /\ ~(Room.Width > MaxDimension \/ Room.Length > MaxDimension
         \/ Room.Height > MaxDimension)
    /\ ~(Abs(Room.Elevation) > MaxElevation)
    /\ GetBoundingBox(Room).IsValid

GetExpandedBounds(Room, Cfg) == ExpandBy(GetBoundingBox(Room), Cfg.CollisionBuffer)

AreRoomsOnDifferentLevels(Room1, Room2) ==
    Abs(Room1.Elevation - Room2.Elevation) > MinSeparation

InternalCheckCollision_NoScan(TestRoom, ExistingRooms, ExcludeRoomIndex, Cfg) ==
    ~ValidateRoomBounds(TestRoom)

\* A variant of InternalCheckCollision that ignores an intersection between
\* units on different levels.
InternalCheckCollision_LevelAware(TestRoom, ExistingRooms, ExcludeRoomIndex, Cfg) ==
    \/ ~ValidateRoomBounds(TestRoom)
    \/ \E i \in 0..(Len(ExistingRooms) - 1) :
          /\ i # ExcludeRoomIndex
          /\ ValidateRoomBounds(At(ExistingRooms, i))
          /\ Intersect(GetExpandedBounds(TestRoom, Cfg),
                       GetBoundingBox(At(ExistingRooms, i)))
          /\ ~AreRoomsOnDifferentLevels(TestRoom, At(ExistingRooms, i))

\* A variant of InternalCheckCollision that also skips the unit that follows
\* the excluded one.
InternalCheckCollision_SkipsNext(TestRoom, ExistingRooms, ExcludeRoomIndex, Cfg) ==
    \/ ~ValidateRoomBounds(TestRoom)
    \/ \E i \in 0..(Len(ExistingRooms) - 1) :
          /\ i # ExcludeRoomIndex
          /\ i # ExcludeRoomIndex + 1
          /\ ValidateRoomBounds(At(ExistingRooms, i))
          /\ Intersect(GetExpandedBounds(TestRoom, Cfg),
                       GetBoundingBox(At(ExistingRooms, i)))

InternalCheckCollision(TestRoom, ExistingRooms, ExcludeRoomIndex, Cfg) ==
    \/ ~ValidateRoomBounds(TestRoom)
    \/ \E i \in 0..(Len(ExistingRooms) - 1) :
          /\ i # ExcludeRoomIndex
          /\ ValidateRoomBounds(At(ExistingRooms, i))
          /\ Intersect(GetExpandedBounds(TestRoom, Cfg),
                       GetBoundingBox(At(ExistingRooms, i)))

CheckRoomCollisionExcluding(TestRoom, ExistingRooms, ExcludeRoomIndex, Cfg) ==
    InternalCheckCollision(TestRoom, ExistingRooms, ExcludeRoomIndex, Cfg)

\* ------------------------------------------------------------------------
\* Services/RoomConnectionManager.cpp
\* ------------------------------------------------------------------------
OppositeWall(w) ==
    CASE w = "North" -> "South"
      [] w = "South" -> "North"
      [] w = "East"  -> "West"
      [] w = "West"  -> "East"
      [] OTHER       -> "None"

CalculateWallConnectionPoint(Room, WallSide) ==
    LET HalfW == Room.Width * (METERS_TO_UNREAL_UNITS \div 2)
        HalfL == Room.Length * (METERS_TO_UNREAL_UNITS \div 2)
        RoomCenter == VAdd(Room.Position,
                           Vec(HalfW, HalfL, Room.Elevation * METERS_TO_UNREAL_UNITS))
    IN CASE WallSide = "North" -> VAdd(RoomCenter, Vec(0, HalfL, 0))
         [] WallSide = "South" -> VAdd(RoomCenter, Vec(0, -HalfL, 0))
         [] WallSide = "East"  -> VAdd(RoomCenter, Vec(HalfW, 0, 0))
         [] WallSide = "West"  -> VAdd(RoomCenter, Vec(-HalfW, 0, 0))
         [] OTHER              -> RoomCenter

CreateRoomConnections_FourWalls(Room, Cfg) ==
    [Room EXCEPT !.Connections =
        [i \in 1..4 |->
            FRoomConnection(WallSides[i], FALSE,
                            CalculateWallConnectionPoint(Room, WallSides[i]),
                            Cfg.StandardDoorwayWidth, "Doorway", -1)]]

CreateRoomConnections(Room, Cfg) ==
    LET Sides == IF Room.Category = "Stairs"
                 THEN << OppositeWall(Room.StairDirection) >>
                 ELSE WallSides
    IN [Room EXCEPT !.Connections =
          [i \in 1..Len(Sides) |->
              FRoomConnection(Sides[i], FALSE,
                              CalculateWallConnectionPoint(Room, Sides[i]),
                              Cfg.StandardDoorwayWidth, "Doorway", -1)]]

\* A variant of HandleStairsElevation that leaves every candidate as generated.
HandleStairsElevation_Keep(SourceRoom, NewRoom) == NewRoom

HandleStairsElevation(SourceRoom, NewRoom) ==
    IF SourceRoom.Category = "Stairs"
    THEN [NewRoom EXCEPT !.Elevation = SourceRoom.Elevation]
    ELSE NewRoom

CalculateConnectionPosition(SourceRoom, ConnectionIndex, NewRoom, Cfg) ==
    IF ~InRange(SourceRoom.Connections, ConnectionIndex)
    THEN ZeroVector
    ELSE
    LET Connection == At(SourceRoom.Connections, ConnectionIndex)
        ConnectionPoint == Connection.ConnectionPoint
        ZOffset == IF SourceRoom.Category = "Stairs"
                   THEN -(NewRoom.Elevation * METERS_TO_UNREAL_UNITS)
                   ELSE SourceRoom.Position.Z - ConnectionPoint.Z
        WallThickness == Cfg.WallThickness
        AntiFlickerGap == METERS_TO_UNREAL_UNITS \div 100
        HalfW == NewRoom.Width * (METERS_TO_UNREAL_UNITS \div 2)
        HalfL == NewRoom.Length * (METERS_TO_UNREAL_UNITS \div 2)
        Offset ==
          CASE Connection.WallSide = "North" ->
                 Vec(-HalfW, WallThickness + AntiFlickerGap, ZOffset)
            [] Connection.WallSide = "South" ->
                 Vec(-HalfW,
                     -(NewRoom.Length * METERS_TO_UNREAL_UNITS) - WallThickness
                        - AntiFlickerGap, ZOffset)
            [] Connection.WallSide = "East" ->
                 Vec(WallThickness + AntiFlickerGap, -HalfL, ZOffset)
            [] Connection.WallSide = "West" ->
                 Vec(-(NewRoom.Width * METERS_TO_UNREAL_UNITS) - WallThickness
                        - AntiFlickerGap, -HalfL, ZOffset)
            [] OTHER -> ZeroVector
    IN VAdd(ConnectionPoint, Offset)

\* RoomCreator is a void callback: creatorOk says whether it managed to
\* materialise the room (it then sets RoomUnit) or left RoomUnit null.
RoomCreator(Room, creatorOk) == [Room EXCEPT !.RoomUnit = creatorOk]

TryPlaceRoom(SourceRoom, ConnectionIndex, NewRoom, ExistingRooms, Cfg, creatorOk) ==
    LET Elevated == HandleStairsElevation(SourceRoom, NewRoom)
        Positioned == [Elevated EXCEPT !.Position =
                          CalculateConnectionPosition(SourceRoom, ConnectionIndex,
                                                      Elevated, Cfg)]
        bHasCollision == CheckRoomCollisionExcluding(Positioned, ExistingRooms,
                                                     SourceRoom.RoomIndex, Cfg)
    IN IF ~bHasCollision
       THEN [Placed |-> TRUE,
             Room |-> RoomCreator(CreateRoomConnections(Positioned, Cfg), creatorOk)]
       ELSE [Placed |-> FALSE, Room |-> Positioned]

GetWallSize(Room, WallSide) ==
    CASE WallSide \in {"North", "South"} -> Room.Width
      [] WallSide \in {"East", "West"}   -> Room.Length
      [] OTHER                           -> Room.Width

\* Widths in centimetres; openingRatio is FRandRange(0.6, 0.8) in percent.
DetermineConnectionProperties(Room1, Room2, Cfg, rand, openingRatio) ==
    IF rand < Cfg.DoorwayConnectionRatio
    THEN [Type |-> "Doorway", Width |-> Cfg.StandardDoorwayWidth]
    ELSE LET Room1WallSize ==
                 GetWallSize(Room1, IF Len(Room1.Connections) > 0
                                    THEN At(Room1.Connections, 0).WallSide
                                    ELSE "North")
             Room2WallSize ==
                 GetWallSize(Room2, IF Len(Room2.Connections) > 0
                                    THEN At(Room2.Connections, 0).WallSide
                                    ELSE "North")
             SmallestWall == Min2(Room1WallSize, Room2WallSize)
         IN [Type |-> "Opening",
             Width |-> Clamp(SmallestWall * openingRatio,
                             Cfg.StandardDoorwayWidth, SmallestWall * 90)]

\* CreatePhysicalConnection: the sequence of AddHoleToWall requests it makes on
\* the room unit of Room, none when the room has no room unit or the index is
\* no connection of the room.  The room units of a run are created with the
\* generator actor as outer, so the owner cast at line 379 succeeds.
CreatePhysicalConnection(Room, ConnectionIndex, ConnectionType, ConnectionWidth) ==
    IF ~Room.RoomUnit \/ ~InRange(Room.Connections, ConnectionIndex)
    THEN << >>
    ELSE << [RoomIndex |-> Room.RoomIndex,
             WallSide |-> At(Room.Connections, ConnectionIndex).WallSide,
             Type |-> ConnectionType, Width |-> ConnectionWidth] >>

\* A variant of ConnectRooms that also moves the first room's connection point
\* onto the second room's.
ConnectRooms_SnapPoints(Room1, Connection1Index, Room2, Connection2Index, Cfg, rand, openingRatio) ==
    IF \/ ~InRange(Room1.Connections, Connection1Index)
       \/ ~InRange(Room2.Connections, Connection2Index)
    THEN [Room1 |-> Room1, Room2 |-> Room2, Openings |-> << >>]
    ELSE [Room1 |-> [Room1 EXCEPT
                       !.Connections[Connection1Index + 1].bIsUsed = TRUE,
                       !.Connections[Connection1Index + 1].ConnectedRoomIndex =
                            Room2.RoomIndex,
                       !.Connections[Connection1Index + 1].ConnectionPoint =
                            At(Room2.Connections, Connection2Index).ConnectionPoint],
          Room2 |-> [Room2 EXCEPT
                       !.Connections[Connection2Index + 1].bIsUsed = TRUE,
                       !.Connections[Connection2Index + 1].ConnectedRoomIndex =
                            Room1.RoomIndex],
          Openings |-> << >>]

\* A variant of ConnectRooms that validates each connection index on its own
\* and marks the connection of a room whose own index is valid.
ConnectRooms_PartialCheck(Room1, Connection1Index, Room2, Connection2Index, Cfg, rand, openingRatio) ==
    [Room1 |-> IF InRange(Room1.Connections, Connection1Index)
               THEN [Room1 EXCEPT
                       !.Connections[Connection1Index + 1].bIsUsed = TRUE,
                       !.Connections[Connection1Index + 1].ConnectedRoomIndex =
                            Room2.RoomIndex]
               ELSE Room1,
     Room2 |-> IF InRange(Room2.Connections, Connection2Index)
               THEN [Room2 EXCEPT
                       !.Connections[Connection2Index + 1].bIsUsed = TRUE,
                       !.Connections[Connection2Index + 1].ConnectedRoomIndex =
                            Room1.RoomIndex]
               ELSE Room2,
     Openings |-> << >>]

\* ConnectRooms returns the pair of updated rooms (unchanged on the early
\* return for invalid connection indices) and the opening requests made.
ConnectRooms(Room1, Connection1Index, Room2, Connection2Index, Cfg, rand, openingRatio) ==
    IF \/ ~InRange(Room1.Connections, Connection1Index)
       \/ ~InRange(Room2.Connections, Connection2Index)
    THEN [Room1 |-> Room1, Room2 |-> Room2, Openings |-> << >>]
    ELSE LET P == DetermineConnectionProperties(Room1, Room2, Cfg, rand, openingRatio)
         IN [Room1 |-> [Room1 EXCEPT
                          !.Connections[Connection1Index + 1].bIsUsed = TRUE,
                          !.Connections[Connection1Index + 1].ConnectionType = P.Type,
                          !.Connections[Connection1Index + 1].ConnectionWidth = P.Width,
                          !.Connections[Connection1Index + 1].ConnectedRoomIndex =
                               Room2.RoomIndex],
             Room2 |-> [Room2 EXCEPT
                          !.Connections[Connection2Index + 1].bIsUsed = TRUE,
                          !.Connections[Connection2Index + 1].ConnectionType = P.Type,
                          !.Connections[Connection2Index + 1].ConnectionWidth = P.Width,
                          !.Connections[Connection2Index + 1].ConnectedRoomIndex =
                               Room1.RoomIndex],
             Openings |->
                 CreatePhysicalConnection(Room1, Connection1Index, P.Type, P.Width)
                 \o CreatePhysicalConnection(Room2, Connection2Index, P.Type, P.Width)]


\* ------------------------------------------------------------------------
\* Strategies/ : candidate generation
\* ------------------------------------------------------------------------
\* Representative outcomes of the random dimension draws (metres), each one a
\* pair the strategy can return for the configuration GenerateRoomOfCategory
\* passes (MinRoomSize 2, MaxRoomSize 8, hallway width 2.5..5, length 4..12).
StandardRoomDimensions == {<<8, 8>>}

HallwayDimensions == {<<3, 12>>}

StairsDimensions == {<<4, 4>>}

\* CalculateStairElevation: FRandRange(MinStairHeight, MaxStairHeight) * 100.
StairElevationChanges == {200}

StairDirections == {"South", "West"}

\* Values of FRand() in percent.
FRandValues == {0, 50, 99}

\* Values of FRandRange(0.6, 0.8) in percent.
OpeningRatios == {60}

InitializeBaseRoomData(Category, RoomIndex) ==
    [RoomIndex |-> RoomIndex, Category |-> Category, Position |-> ZeroVector,
     Width |-> 0, Length |-> 0, Height |-> StandardRoomHeight, Elevation |-> 0,
     StairDirection |-> "None", Connections |-> << >>, RoomUnit |-> FALSE]

CreateStandardRoomConnections(Room) ==
    [Room EXCEPT !.Connections =
        [i \in 1..CONNECTIONS_PER_ROOM |->
            FRoomConnection(WallSides[i], FALSE, ZeroVector, DefaultDoorwayWidth,
                            "Doorway", -1)]]

CreateStairsConnections(Room, StairDirection) ==
    [Room EXCEPT !.Connections =
        [i \in 1..CONNECTIONS_PER_ROOM |->
            IF WallSides[i] = StairDirection
            THEN FRoomConnection(WallSides[i], TRUE, ZeroVector, 0, "Doorway", -1)
            ELSE FRoomConnection(WallSides[i], FALSE, ZeroVector,
                                 DefaultDoorwayWidth, "Doorway", -1)]]

StandardRoomGenerateRoom(RoomIndex) ==
    { CreateStandardRoomConnections(
          [InitializeBaseRoomData("Room", RoomIndex) EXCEPT
              !.Width = d[1], !.Length = d[2]]) : d \in StandardRoomDimensions }

HallwayGenerateRoom(RoomIndex) ==
    { CreateStandardRoomConnections(
          [InitializeBaseRoomData("Hallway", RoomIndex) EXCEPT
              !.Width = d[1], !.Length = d[2]]) : d \in HallwayDimensions }

StairsGenerateRoom(RoomIndex) ==
    { CreateStairsConnections(
          [InitializeBaseRoomData("Stairs", RoomIndex) EXCEPT
              !.Width = c[1][1], !.Length = c[1][2], !.StairDirection = c[2],
              !.Elevation = IF c[4] THEN c[3] ELSE -c[3]], c[2]) :
        c \in StairsDimensions \X StairDirections \X StairElevationChanges \X BOOLEAN }

\* ------------------------------------------------------------------------
\* Services/GenerationOrchestrator.cpp
\* ------------------------------------------------------------------------
GetOppositeWallIndex(WallIndex) ==
    CASE WallIndex = 0 -> 1
      [] WallIndex = 1 -> 0
      [] WallIndex = 2 -> 3
      [] WallIndex = 3 -> 2
      [] OTHER         -> 0

DetermineRoomCategory_ThreeWay(SourceRoom, Cfg, RandomValue) ==
    IF RandomValue < Cfg.RoomRatio THEN "Room"
    ELSE IF RandomValue < Cfg.RoomRatio + Cfg.HallwayRatio THEN "Hallway"
    ELSE "Stairs"

\* RandomValue < RoomRatio / (RoomRatio + HallwayRatio); with both ratios 0
\* the quotient is NaN and the comparison is false.
DetermineRoomCategory(SourceRoom, Cfg, RandomValue) ==
    IF SourceRoom.Category = "Stairs"
    THEN IF /\ Cfg.RoomRatio + Cfg.HallwayRatio # 0
            /\ RandomValue * (Cfg.RoomRatio + Cfg.HallwayRatio) < Cfg.RoomRatio * 100
         THEN "Room"
         ELSE "Hallway"
    ELSE IF RandomValue < Cfg.RoomRatio THEN "Room"
    ELSE IF RandomValue < Cfg.RoomRatio + Cfg.HallwayRatio THEN "Hallway"
    ELSE "Stairs"

GenerateRoomOfCategory(Category, RoomIndex) ==
    CASE Category = "Room"    -> StandardRoomGenerateRoom(RoomIndex)
      [] Category = "Hallway" -> HallwayGenerateRoom(RoomIndex)
      [] Category = "Stairs"  -> StairsGenerateRoom(RoomIndex)

CleanupAvailableRooms(Available, GeneratedRooms) ==
    SelectSeq(Available,
              LAMBDA r : /\ InRange(GeneratedRooms, r)
                         /\ Len(GetAvailableConnections(At(GeneratedRooms, r))) # 0)

\* CheckSafetyLimits: Result is the value returned, Flag the new value of
\* bStoppedBySafety.  exceeded is ElapsedTime > Config.MaxGenerationTime.
CheckSafetyLimits_FlagOnly(Cfg, exceeded, main, retry, place, flag) ==
    LET Hit == \/ exceeded
               \/ main >= Cfg.MaxSafetyIterations
               \/ retry >= Cfg.MaxSafetyIterations
               \/ place >= Cfg.MaxSafetyIterations
    IN [Result |-> exceeded, Flag |-> flag \/ Hit]

\* A variant of CheckSafetyLimits that trips only above the limit.
CheckSafetyLimits_Exclusive(Cfg, exceeded, main, retry, place, flag) ==
    LET Hit == \/ exceeded
               \/ main > Cfg.MaxSafetyIterations
               \/ retry > Cfg.MaxSafetyIterations
               \/ place > Cfg.MaxSafetyIterations
    IN [Result |-> Hit, Flag |-> flag \/ Hit]

CheckSafetyLimits(Cfg, exceeded, main, retry, place, flag) ==
    LET Hit == \/ exceeded
               \/ main >= Cfg.MaxSafetyIterations
               \/ retry >= Cfg.MaxSafetyIterations
               \/ place >= Cfg.MaxSafetyIterations
    IN [Result |-> Hit, Flag |-> flag \/ Hit]


\* ------------------------------------------------------------------------
\* Configurations (FBackroomGenerationConfig) and the initial room
\* ------------------------------------------------------------------------
\* <<RoomRatio, HallwayRatio, StairRatio>> in percent.
RatioConfigs == {<<100, 0, 0>>, <<0, 0, 100>>, <<50, 0, 50>>}

\* MaxSafetyIterations: one value small enough to trip, and the default.
SafetyIterationValues == {3, 2000}

\* DoorwayConnectionRatio in percent: every connection an Opening, or every
\* connection a Doorway.
DoorwayRatioValues == {0, 100}

\* TotalRooms values explored for a ratio triple: stair-free configurations up
\* to MaxTotalRooms, configurations that can draw stairs up to
\* MaxTotalRoomsWithStairs.
TotalRoomsValues(r) ==
    1..(IF r[3] = 0 THEN MaxTotalRooms ELSE MaxTotalRoomsWithStairs)

Configs ==
    UNION { { [TotalRooms |-> t, RoomRatio |-> r[1], HallwayRatio |-> r[2],
               StairRatio |-> r[3], MaxAttemptsPerConnection |-> a,
               MaxConnectionRetries |-> c, MaxSafetyIterations |-> s,
               WallThickness |-> 20, CollisionBuffer |-> 2,
               DoorwayConnectionRatio |-> d, StandardDoorwayWidth |-> 80] :
                t \in TotalRoomsValues(r), a \in 1..MaxAttemptsBound,
                c \in 1..MaxRetriesBound, s \in SafetyIterationValues,
                d \in DoorwayRatioValues } : r \in RatioConfigs }

\* The initial unit supplied by the caller: index 0, category Room, 5x5 m,
\* materialised, with its four wall connections.
InitialRoom(Cfg) ==
    CreateRoomConnections(
        [InitializeBaseRoomData("Room", 0) EXCEPT
            !.Width = INITIAL_ROOM_SIZE, !.Length = INITIAL_ROOM_SIZE,
            !.RoomUnit = TRUE], Cfg)

\* Values read from memory that holds no constructed element.
GarbageValues == {0, 7}

VARIABLES
    Config,                  \* the FBackroomGenerationConfig of the run
    bRoomCreatorWorks,       \* whether the RoomCreator callback of the run materialises rooms
    OutGeneratedRooms,       \* TArray<FRoomData>: the unit list
    AvailableRooms,          \* TArray<int32>: the frontier
    MainLoopCounter, ConnectionRetryCounter, PlacementAttemptCounter,
    bStoppedBySafety,
    bTimeExceeded,           \* ElapsedTime > Config.MaxGenerationTime at the last clock read
    bEmergencyExit,
    RoomIndex,               \* the for-loop variable of the main loop
    bRoomPlaced, ConnectionRetries,
    RandomRoomIndex, ConnectionIndex, Attempt,
    pc,                      \* "Main", "Retry", "Attempt", "Done", "Crashed"
    ReturnValue,             \* value returned by ExecuteProceduralGeneration (-1 before)
    SafetyTrips,             \* history: number of CheckSafetyLimits calls that returned true
    PlacedFrom,              \* history: per unit, the source position, connection and
                             \* excluded index of the TryPlaceRoom call that placed it
    Call                     \* a call of one service or strategy function on its own:
                             \* its inputs and, once it has returned, its result

vars == <<Config, bRoomCreatorWorks, OutGeneratedRooms, AvailableRooms, MainLoopCounter,
          ConnectionRetryCounter, PlacementAttemptCounter, bStoppedBySafety,
          bTimeExceeded, bEmergencyExit, RoomIndex, bRoomPlaced, ConnectionRetries,
          RandomRoomIndex, ConnectionIndex, Attempt, pc, ReturnValue, SafetyTrips,
          PlacedFrom, Call>>

NoSource == [Source |-> -1, Connection |-> -1, Excluded |-> -1]

\* No function is called on its own during a generation run.
NoCall == [Op |-> "None", Done |-> TRUE]

\* InitializeGeneration and lines 31-45 of ExecuteProceduralGeneration.
Init ==
    /\ Config \in Configs
    /\ bRoomCreatorWorks \in BOOLEAN
    /\ OutGeneratedRooms = << InitialRoom(Config) >>
    /\ AvailableRooms = << 0 >>
    /\ MainLoopCounter = 0
    /\ ConnectionRetryCounter = 0
    /\ PlacementAttemptCounter = 0
    /\ bStoppedBySafety = FALSE
    /\ bTimeExceeded = FALSE
    /\ bEmergencyExit = FALSE
    /\ RoomIndex = 1
    /\ bRoomPlaced = FALSE
    /\ ConnectionRetries = 0
    /\ RandomRoomIndex = -1
    /\ ConnectionIndex = -1
    /\ Attempt = 0
    /\ pc = "Main"
    /\ ReturnValue = -1
    /\ SafetyTrips = 0
    /\ PlacedFrom = << NoSource >>
    /\ Call = NoCall

MainLoopCondition_Inclusive ==
    /\ RoomIndex <= Config.TotalRooms
    /\ Len(AvailableRooms) > 0
    /\ ~bEmergencyExit

MainLoopCondition ==
    /\ RoomIndex < Config.TotalRooms
    /\ Len(AvailableRooms) > 0
    /\ ~bEmergencyExit

\* A variant of the while condition without the limit on the retries of a slot.
RetryLoopCondition_NoRetryLimit ==
    /\ ~bRoomPlaced
    /\ Len(AvailableRooms) > 0
    /\ ~bEmergencyExit

RetryLoopCondition ==
    /\ ~bRoomPlaced
    /\ ConnectionRetries < Config.MaxConnectionRetries
    /\ Len(AvailableRooms) > 0
    /\ ~bEmergencyExit

\* Reading the clock: time only moves forward.
ClockReads == { t \in BOOLEAN : bTimeExceeded => t }

\* for-condition false: fall through to the statistics and return.
MainLoopExit ==
    /\ pc = "Main"
    /\ ~MainLoopCondition
    /\ pc' = "Done"
    /\ ReturnValue' = Len(OutGeneratedRooms)
    /\ UNCHANGED <<Call, Config, bRoomCreatorWorks, OutGeneratedRooms, AvailableRooms, MainLoopCounter,
                   ConnectionRetryCounter, PlacementAttemptCounter, bStoppedBySafety,
                   bTimeExceeded, bEmergencyExit, RoomIndex, bRoomPlaced,
                   ConnectionRetries, RandomRoomIndex, ConnectionIndex, Attempt,
                   SafetyTrips, PlacedFrom>>

\* Lines 50-56: the safety check of the main loop trips; break and return.
MainLoopSafetyTrip ==
    /\ pc = "Main"
    /\ MainLoopCondition
    /\ \E t \in ClockReads :
         LET S == CheckSafetyLimits(Config, t, MainLoopCounter + 1,
                                    ConnectionRetryCounter, PlacementAttemptCounter,
                                    bStoppedBySafety)
         IN /\ S.Result
            /\ bTimeExceeded' = t
            /\ bStoppedBySafety' = S.Flag
    /\ MainLoopCounter' = MainLoopCounter + 1
    /\ SafetyTrips' = SafetyTrips + 1
    /\ bEmergencyExit' = TRUE
    /\ pc' = "Done"
    /\ ReturnValue' = Len(OutGeneratedRooms)
    /\ UNCHANGED <<Call, Config, bRoomCreatorWorks, OutGeneratedRooms, AvailableRooms, ConnectionRetryCounter,
                   PlacementAttemptCounter, RoomIndex, bRoomPlaced, ConnectionRetries,
                   RandomRoomIndex, ConnectionIndex, Attempt, PlacedFrom>>

\* Lines 50-71: a new slot starts.
MainLoopEnter ==
    /\ pc = "Main"
    /\ MainLoopCondition
    /\ \E t \in ClockReads :
         LET S == CheckSafetyLimits(Config, t, MainLoopCounter + 1,
                                    ConnectionRetryCounter, PlacementAttemptCounter,
                                    bStoppedBySafety)
         IN /\ ~S.Result
            /\ bTimeExceeded' = t
            /\ bStoppedBySafety' = S.Flag
    /\ MainLoopCounter' = MainLoopCounter + 1
    /\ bRoomPlaced' = FALSE
    /\ ConnectionRetries' = 0
    /\ pc' = "Retry"
    /\ UNCHANGED <<Call, Config, bRoomCreatorWorks, OutGeneratedRooms, AvailableRooms, ConnectionRetryCounter,
                   PlacementAttemptCounter, bEmergencyExit, RoomIndex,
                   RandomRoomIndex, ConnectionIndex, Attempt, ReturnValue,
                   SafetyTrips, PlacedFrom>>

\* while-condition false: lines 174-184, prune the frontier, next RoomIndex.
RetryLoopExit ==
    /\ pc = "Retry"
    /\ ~RetryLoopCondition
    /\ AvailableRooms' = CleanupAvailableRooms(AvailableRooms, OutGeneratedRooms)
    /\ RoomIndex' = RoomIndex + 1
    /\ pc' = "Main"
    /\ UNCHANGED <<Call, Config, bRoomCreatorWorks, OutGeneratedRooms, MainLoopCounter, ConnectionRetryCounter,
                   PlacementAttemptCounter, bStoppedBySafety, bTimeExceeded,
                   bEmergencyExit, bRoomPlaced, ConnectionRetries, RandomRoomIndex,
                   ConnectionIndex, Attempt, ReturnValue, SafetyTrips, PlacedFrom>>

\* Lines 77-84: the safety check of the retry loop trips; break, then the
\* rest of the for body (prune) and the for increment.
RetryLoopSafetyTrip ==
    /\ pc = "Retry"
    /\ RetryLoopCondition
    /\ \E t \in ClockReads :
         LET S == CheckSafetyLimits(Config, t, MainLoopCounter,
                                    ConnectionRetryCounter + 1, PlacementAttemptCounter,
                                    bStoppedBySafety)
         IN /\ S.Result
            /\ bTimeExceeded' = t
            /\ bStoppedBySafety' = S.Flag
    /\ ConnectionRetries' = ConnectionRetries + 1
    /\ ConnectionRetryCounter' = ConnectionRetryCounter + 1
    /\ SafetyTrips' = SafetyTrips + 1
    /\ bEmergencyExit' = TRUE
    /\ AvailableRooms' = CleanupAvailableRooms(AvailableRooms, OutGeneratedRooms)
    /\ RoomIndex' = RoomIndex + 1
    /\ pc' = "Main"
    /\ UNCHANGED <<Call, Config, bRoomCreatorWorks, OutGeneratedRooms, MainLoopCounter, PlacementAttemptCounter,
                   bRoomPlaced, RandomRoomIndex, ConnectionIndex, Attempt, ReturnValue,
                   PlacedFrom>>


\* Lines 77-84 when the safety check of the retry loop does not trip.
RetryLoopPasses ==
    /\ pc = "Retry"
    /\ RetryLoopCondition
    /\ \E t \in ClockReads :
         LET S == CheckSafetyLimits(Config, t, MainLoopCounter,
                                    ConnectionRetryCounter + 1, PlacementAttemptCounter,
                                    bStoppedBySafety)
         IN /\ ~S.Result
            /\ bTimeExceeded' = t
            /\ bStoppedBySafety' = S.Flag
    /\ ConnectionRetryCounter' = ConnectionRetryCounter + 1

\* Lines 86-128: a frontier entry is drawn.  An entry that is no position of
\* the unit list skips the iteration (line 102); a unit without an open
\* connection skips it and counts a second retry (lines 108-115); otherwise one
\* of its open connections is drawn and TryGenerateConnectedRoom is entered.
RetrySelectConnection ==
    /\ RetryLoopPasses
    /\ \E k \in 1..Len(AvailableRooms) :
         IF ~InRange(OutGeneratedRooms, AvailableRooms[k])
         THEN /\ ConnectionRetries' = ConnectionRetries + 1
              /\ UNCHANGED <<RandomRoomIndex, ConnectionIndex, Attempt, pc>>
         ELSE LET AvailableConnections ==
                      GetAvailableConnections(At(OutGeneratedRooms, AvailableRooms[k]))
              IN IF Len(AvailableConnections) = 0
                 THEN /\ ConnectionRetries' = ConnectionRetries + 2
                      /\ UNCHANGED <<RandomRoomIndex, ConnectionIndex, Attempt, pc>>
                 ELSE /\ \E j \in 1..Len(AvailableConnections) :
                            /\ RandomRoomIndex' = AvailableRooms[k]
                            /\ ConnectionIndex' = AvailableConnections[j]
                      /\ ConnectionRetries' = ConnectionRetries + 1
                      /\ Attempt' = 0
                      /\ pc' = "Attempt"
    /\ UNCHANGED <<Call, Config, bRoomCreatorWorks, OutGeneratedRooms, AvailableRooms, MainLoopCounter,
                   PlacementAttemptCounter, bEmergencyExit, RoomIndex, bRoomPlaced,
                   ReturnValue, SafetyTrips, PlacedFrom>>

\* TryGenerateConnectedRoom returned false (lines 165-171): back to the while.
ReturnFalseToRetryLoop ==
    /\ pc' = "Retry"
    /\ RandomRoomIndex' = -1
    /\ ConnectionIndex' = -1
    /\ Attempt' = 0
    /\ UNCHANGED <<Call, Config, bRoomCreatorWorks, OutGeneratedRooms, AvailableRooms, MainLoopCounter,
                   ConnectionRetryCounter, bEmergencyExit, RoomIndex, bRoomPlaced,
                   ConnectionRetries, ReturnValue, PlacedFrom>>

\* Line 370 false, line 412: all attempts failed.
AttemptsExhausted ==
    /\ pc = "Attempt"
    /\ ~(Attempt < Config.MaxAttemptsPerConnection)
    /\ ReturnFalseToRetryLoop
    /\ UNCHANGED <<PlacementAttemptCounter, bStoppedBySafety, bTimeExceeded, SafetyTrips>>

\* Lines 372-377: the safety check of the attempt loop trips; return false.
AttemptSafetyTrip ==
    /\ pc = "Attempt"
    /\ Attempt < Config.MaxAttemptsPerConnection
    /\ \E t \in ClockReads :
         LET S == CheckSafetyLimits(Config, t, MainLoopCounter, ConnectionRetryCounter,
                                    PlacementAttemptCounter + 1, bStoppedBySafety)
         IN /\ S.Result
            /\ bTimeExceeded' = t
            /\ bStoppedBySafety' = S.Flag
    /\ PlacementAttemptCounter' = PlacementAttemptCounter + 1
    /\ SafetyTrips' = SafetyTrips + 1
    /\ ReturnFalseToRetryLoop

\* Lines 372-377 when the safety check of the attempt loop does not trip.
AttemptPasses ==
    /\ pc = "Attempt"
    /\ Attempt < Config.MaxAttemptsPerConnection
    /\ \E t \in ClockReads :
         LET S == CheckSafetyLimits(Config, t, MainLoopCounter, ConnectionRetryCounter,
                                    PlacementAttemptCounter + 1, bStoppedBySafety)
         IN /\ ~S.Result
            /\ bTimeExceeded' = t
            /\ bStoppedBySafety' = S.Flag
    /\ PlacementAttemptCounter' = PlacementAttemptCounter + 1

\* The candidates of one attempt: category drawn by DetermineRoomCategory,
\* room drawn by the strategy, then TryPlaceRoom.
AttemptOutcomes ==
    LET SourceRoom == At(OutGeneratedRooms, RandomRoomIndex)
    IN { TryPlaceRoom(SourceRoom, ConnectionIndex, NewRoom, OutGeneratedRooms,
                      Config, bRoomCreatorWorks) :
           NewRoom \in
             UNION { GenerateRoomOfCategory(
                         DetermineRoomCategory(SourceRoom, Config, rv), RoomIndex) :
                     rv \in FRandValues } }

\* Lines 399-409: TryPlaceRoom returned false; next attempt.
AttemptCollision ==
    /\ AttemptPasses
    /\ \E R \in AttemptOutcomes : ~R.Placed
    /\ Attempt' = Attempt + 1
    /\ UNCHANGED <<Call, Config, bRoomCreatorWorks, OutGeneratedRooms, AvailableRooms, MainLoopCounter,
                   ConnectionRetryCounter, bEmergencyExit, RoomIndex, bRoomPlaced,
                   ConnectionRetries, RandomRoomIndex, ConnectionIndex, pc,
                   ReturnValue, SafetyTrips, PlacedFrom>>


\* Lines 138-149 and line 403 common to every successful placement: the
\* candidate is appended, the slot is marked placed and RoomIndex joins the
\* frontier.
CommitPlaced(R) ==
    /\ R.Placed
    /\ bRoomPlaced' = TRUE
    /\ AvailableRooms' = IF RoomIndex >= 0 /\ RoomIndex < Config.TotalRooms
                         THEN Append(AvailableRooms, RoomIndex)
                         ELSE AvailableRooms
    /\ PlacedFrom' = Append(PlacedFrom,
                            [Source |-> RandomRoomIndex, Connection |-> ConnectionIndex,
                             Excluded |-> At(OutGeneratedRooms, RandomRoomIndex).RoomIndex])
    /\ RandomRoomIndex' = -1
    /\ ConnectionIndex' = -1
    /\ Attempt' = 0
    /\ UNCHANGED <<Call, Config, bRoomCreatorWorks, MainLoopCounter, ConnectionRetryCounter, bEmergencyExit,
                   RoomIndex, ConnectionRetries, ReturnValue, SafetyTrips>>

\* Lines 151-157: the unit list after ConnectRooms(OutGeneratedRooms[RandomRoomIndex],
\* ConnectionIndex, OutGeneratedRooms[RoomIndex], OppositeConnectionIndex).
ConnectPlaced(Rooms, rand, openingRatio) ==
    LET C == ConnectRooms(At(Rooms, RandomRoomIndex), ConnectionIndex,
                          At(Rooms, RoomIndex), GetOppositeWallIndex(ConnectionIndex),
                          Config, rand, openingRatio)
    IN [Rooms EXCEPT ![RandomRoomIndex + 1] = C.Room1, ![RoomIndex + 1] = C.Room2]

\* Lines 399-404 and 138-164: the candidate is placed, committed and connected.
AttemptPlaced ==
    /\ AttemptPasses
    /\ \E R \in AttemptOutcomes, rand \in FRandValues, openingRatio \in OpeningRatios :
         /\ CommitPlaced(R)
         /\ InRange(Append(OutGeneratedRooms, R.Room), RoomIndex)
         /\ OutGeneratedRooms' =
                ConnectPlaced(Append(OutGeneratedRooms, R.Room), rand, openingRatio)
    /\ pc' = "Retry"

\* Line 155 when RoomIndex is not a position of the unit list: the element
\* access OutGeneratedRooms[RoomIndex] is out of range.  In a build with
\* range checks the access aborts the process.
AttemptPlacedRangeCheckAbort ==
    /\ AttemptPasses
    /\ \E R \in AttemptOutcomes :
         /\ CommitPlaced(R)
         /\ ~InRange(Append(OutGeneratedRooms, R.Room), RoomIndex)
         /\ OutGeneratedRooms' = Append(OutGeneratedRooms, R.Room)
    /\ pc' = "Crashed"

\* The same access in a build without range checks reads reserved memory that
\* holds no room; ConnectRooms finds the connection index invalid there and
\* returns without linking.
AttemptPlacedUncheckedNoLink ==
    /\ AttemptPasses
    /\ \E R \in AttemptOutcomes :
         /\ CommitPlaced(R)
         /\ ~InRange(Append(OutGeneratedRooms, R.Room), RoomIndex)
         /\ OutGeneratedRooms' = Append(OutGeneratedRooms, R.Room)
    /\ pc' = "Retry"

\* The same access when the memory read makes the index look valid: the
\* source's connection is marked used with whatever the memory held.
AttemptPlacedUncheckedGarbageLink ==
    /\ AttemptPasses
    /\ \E R \in AttemptOutcomes, rand \in FRandValues, openingRatio \in OpeningRatios,
          g \in GarbageValues :
         /\ CommitPlaced(R)
         /\ ~InRange(Append(OutGeneratedRooms, R.Room), RoomIndex)
         /\ LET Rooms == Append(OutGeneratedRooms, R.Room)
                Garbage == [InitializeBaseRoomData("Room", g) EXCEPT
                               !.Width = g, !.Length = g,
                               !.Connections = [i \in 1..CONNECTIONS_PER_ROOM |->
                                   FRoomConnection("None", FALSE, ZeroVector, g,
                                                   "Doorway", g)]]
                C == ConnectRooms(At(Rooms, RandomRoomIndex), ConnectionIndex, Garbage,
                                  GetOppositeWallIndex(ConnectionIndex), Config, rand,
                                  openingRatio)
            IN OutGeneratedRooms' = [Rooms EXCEPT ![RandomRoomIndex + 1] = C.Room1]
    /\ pc' = "Retry"

Next ==
    \/ MainLoopExit
    \/ MainLoopSafetyTrip
    \/ MainLoopEnter
    \/ RetryLoopExit
    \/ RetryLoopSafetyTrip
    \/ RetrySelectConnection
    \/ AttemptsExhausted
    \/ AttemptSafetyTrip
    \/ AttemptCollision
    \/ AttemptPlaced
    \/ AttemptPlacedRangeCheckAbort
    \/ AttemptPlacedUncheckedNoLink
    \/ AttemptPlacedUncheckedGarbageLink

Spec == Init /\ [][Next]_vars

\* The loop is synchronous: some step is always taken until the run returns.
FairSpec == Spec /\ WF_vars(Next)

\* ------------------------------------------------------------------------
\* A run from the call of ExecuteProceduralGeneration
\* ------------------------------------------------------------------------
\* What the caller's output list may hold when the run is called: nothing, or
\* a unit of an earlier run.
PreviousContents(Cfg) ==
    { << >>,
      << CreateRoomConnections(
             [InitializeBaseRoomData("Hallway", 1) EXCEPT
                 !.Width = 3, !.Length = 12, !.RoomUnit = TRUE], Cfg) >> }

\* Values the counters of the orchestrator may hold from an earlier run.
PreviousCounterValues == {0, 2000}

\* A variant of the start of the run that does not empty the output list.
StartOutput_NoEmpty(Previous, InitialUnit) == Append(Previous, InitialUnit)

\* Lines 31-33: OutGeneratedRooms.Empty(), Reserve(TotalRooms), Add(InitialRoom).
StartOutput(Previous, InitialUnit) == << InitialUnit >>

\* The state in which ExecuteProceduralGeneration is called.
StartInit ==
    /\ Config \in Configs
    /\ bRoomCreatorWorks \in BOOLEAN
    /\ OutGeneratedRooms \in PreviousContents(Config)
    /\ AvailableRooms = << >>
    /\ \E k \in PreviousCounterValues :
          /\ MainLoopCounter = k
          /\ ConnectionRetryCounter = k
          /\ PlacementAttemptCounter = k
    /\ bStoppedBySafety \in BOOLEAN
    /\ bTimeExceeded = FALSE
    /\ bEmergencyExit = FALSE
    /\ RoomIndex = 1
    /\ bRoomPlaced = FALSE
    /\ ConnectionRetries = 0
    /\ RandomRoomIndex = -1
    /\ ConnectionIndex = -1
    /\ Attempt = 0
    /\ pc = "Start"
    /\ ReturnValue = -1
    /\ SafetyTrips = 0
    /\ PlacedFrom = << NoSource >>
    /\ Call = NoCall

\* Lines 17-45: InitializeGeneration resets the counters and the safety flag,
\* the output list is emptied and receives the initial unit, the frontier
\* receives index 0.
StartGeneration ==
    /\ pc = "Start"
    /\ MainLoopCounter' = 0
    /\ ConnectionRetryCounter' = 0
    /\ PlacementAttemptCounter' = 0
    /\ bStoppedBySafety' = FALSE
    /\ OutGeneratedRooms' = StartOutput(OutGeneratedRooms, InitialRoom(Config))
    /\ AvailableRooms' = << 0 >>
    /\ bEmergencyExit' = FALSE
    /\ pc' = "Main"
    /\ UNCHANGED <<Call, Config, bRoomCreatorWorks, bTimeExceeded, RoomIndex, bRoomPlaced,
                   ConnectionRetries, RandomRoomIndex, ConnectionIndex, Attempt,
                   ReturnValue, SafetyTrips, PlacedFrom>>

RunNext ==
    \/ StartGeneration
    \/ Next

RunSpec == StartInit /\ [][RunNext]_vars

\* ------------------------------------------------------------------------
\* Strategies/HallwayStrategy.cpp : hallway dimensions
\* ------------------------------------------------------------------------
\* Lengths of this section are integers in tenths of a metre, ratios and
\* FRand() draws integers in percent.
Max2(a, b) == IF a > b THEN a ELSE b

\* FRandomStream::FRandRange(Min, Max) = Min + (Max - Min) * FRand(), for the
\* FRand() draw f in percent; the result is rounded down to the unit.
FRandRange(Min, Max, f) == Min + ((Max - Min) * f) \div 100

ValidateHallwayDimensions(Cfg, Width, Length) ==
    LET MinWidth == Max2(10, Cfg.MinHallwayWidth)
        MaxWidth == Min2(1000, Cfg.MaxHallwayWidth)
        MinLength == Max2(10, Cfg.MinHallwayLength)
        MaxLength == Min2(1000, Cfg.MaxHallwayLength)
        Larger == Max2(Width, Length)
        Smaller == Max2(1, Min2(Width, Length))
    IN /\ ~(Width < 10 \/ Length < 10 \/ Width > 1000 \/ Length > 1000)
       /\ ~(Width < MinWidth \/ Width > MaxWidth
            \/ Length < MinLength \/ Length > MaxLength)
       /\ ~(Larger * 10 < Smaller * 12)
       /\ ~(Larger > Smaller * 10)

\* The category drawn by RandomValue (percent) from the three sub-ratios.
HallwayLengthCategory(Cfg, RandomValue) ==
    LET Sum == Cfg.ShortHallwayRatio + Cfg.MediumHallwayRatio + Cfg.LongHallwayRatio
        TotalRatio == IF Sum <= 0 THEN 100 ELSE Sum
    IN IF RandomValue * TotalRatio < Cfg.ShortHallwayRatio * 100 THEN "Short"
       ELSE IF RandomValue * TotalRatio
                 < (Cfg.ShortHallwayRatio + Cfg.MediumHallwayRatio) * 100 THEN "Medium"
       ELSE "Long"

\* Draws is the record of the FRand() draws the function makes, in order:
\* Width, Category, Length, Swap and (used only by the fallback) Fallback.
GenerateHallwayDimensions(Cfg, Draws) ==
    LET MinWidth == Max2(10, Cfg.MinHallwayWidth)
        MaxWidth == Max2(MinWidth + 5, Cfg.MaxHallwayWidth)
        Width0 == FRandRange(MinWidth, MaxWidth, Draws.Width)
        Category == HallwayLengthCategory(Cfg, Draws.Category)
        Length0 ==
            CASE Category = "Short" ->
                   FRandRange(Max2(20, Cfg.MinHallwayLength),
                              Min2(Cfg.MediumHallwayThreshold, Cfg.MaxHallwayLength),
                              Draws.Length)
              [] Category = "Medium" ->
                   FRandRange(Cfg.MediumHallwayThreshold,
                              Min2(Cfg.LongHallwayThreshold, Cfg.MaxHallwayLength),
                              Draws.Length)
              [] OTHER ->
                   FRandRange(Cfg.LongHallwayThreshold, Cfg.MaxHallwayLength,
                              Draws.Length)
        MinRequiredLength == Width0 * 2
        Length1 == IF Length0 < MinRequiredLength
                   THEN Clamp(MinRequiredLength, Cfg.MinHallwayLength,
                              Cfg.MaxHallwayLength)
                   ELSE Length0
        bSwap == Draws.Swap < 25
        Width2 == IF bSwap THEN Length1 ELSE Width0
        Length2 == IF bSwap THEN Width0 ELSE Length1
    IN IF ValidateHallwayDimensions(Cfg, Width2, Length2)
       THEN [Width |-> Width2, Length |-> Length2, Category |-> Category]
       ELSE [Width |-> Clamp(MinWidth, 25, MaxWidth),
             Length |-> FRandRange(Cfg.LongHallwayThreshold, Cfg.MaxHallwayLength,
                                   Draws.Fallback),
             Category |-> Category]

\* The hallway fields of FBackroomGenerationConfig with their default values.
DefaultHallwayConfig ==
    [MinHallwayWidth |-> 25, MaxHallwayWidth |-> 50,
     MinHallwayLength |-> 120, MaxHallwayLength |-> 1500,
     ShortHallwayRatio |-> 20, MediumHallwayRatio |-> 30, LongHallwayRatio |-> 50,
     MediumHallwayThreshold |-> 200, LongHallwayThreshold |-> 350]

\* The DummyConfig that GenerateRoomOfCategory hands to the strategy.
DummyConfig ==
    [DefaultHallwayConfig EXCEPT !.MinHallwayLength = 40, !.MaxHallwayLength = 120]

HallwayConfigs == {DefaultHallwayConfig, DummyConfig}

\* FRand() draws explored for each random value of the function, in percent.
HallwayDraws ==
    [Width : {0, 50, 99}, Category : {0, 25, 75}, Length : {0, 50, 99},
     Swap : {0, 50}, Fallback : {0, 50, 99}]

\* ------------------------------------------------------------------------
\* Strategies/StandardRoomStrategy.cpp : room dimensions, and the candidate
\* GenerateRoomOfCategory obtains from a strategy
\* ------------------------------------------------------------------------
\* Lengths in tenths of a metre, as in the hallway section.
ValidateRoomDimensions(Cfg, Width, Length) ==
    LET MinSize == Max2(5, Cfg.MinRoomSize)
        MaxSize == Min2(1000, Cfg.MaxRoomSize)
        Larger == Max2(Width, Length)
        Smaller == Max2(1, Min2(Width, Length))
    IN /\ ~(Width < 5 \/ Length < 5 \/ Width > 1000 \/ Length > 1000)
       /\ ~(Width < MinSize \/ Width > MaxSize \/ Length < MinSize \/ Length > MaxSize)
       /\ ~(Larger > Smaller * 3)

\* Draws is the record of the draws the function makes: Base and Variation
\* are FRand() draws in percent, Side is RandRange(0, 1).
GenerateStandardRoomDimensions(Cfg, Draws) ==
    LET MinSize == Max2(10, Cfg.MinRoomSize)
        MaxSize == Max2(MinSize + 5, Cfg.MaxRoomSize)
        BaseSize == FRandRange(MinSize, MaxSize, Draws.Base)
        VariationPercent == FRandRange(0, 20, Draws.Variation)
        Variation == (BaseSize * VariationPercent) \div 100
        Width0 == IF Draws.Side = 0 THEN BaseSize ELSE BaseSize + Variation
        Length0 == IF Draws.Side = 0 THEN BaseSize + Variation ELSE BaseSize
        Width1 == Clamp(Width0, MinSize, MaxSize)
        Length1 == Clamp(Length0, MinSize, MaxSize)
    IN IF ValidateRoomDimensions(Cfg, Width1, Length1)
       THEN [Width |-> Width1, Length |-> Length1]
       ELSE [Width |-> Clamp(BaseSize, MinSize, MaxSize),
             Length |-> Clamp(BaseSize, MinSize, MaxSize)]

\* The room-size fields of the DummyConfig of GenerateRoomOfCategory.
DummyRoomConfig == [MinRoomSize |-> 20, MaxRoomSize |-> 80]

\* The category, dimensions (tenths of a metre) and height (metres) of the
\* candidate GenerateRoomOfCategory returns for a Room or a Hallway: the
\* strategy is handed the DummyConfig, whatever configuration the run was
\* given.
GenerateRoomOfCategoryDimensions(Category, Draws) ==
    LET D == IF Category = "Room"
             THEN GenerateStandardRoomDimensions(DummyRoomConfig, Draws)
             ELSE GenerateHallwayDimensions(DummyConfig, Draws)
    IN [Category |-> Category, Width |-> D.Width, Length |-> D.Length,
        Height |-> InitializeBaseRoomData(Category, 1).Height]

\* Valid configurations a run may be given: the default values of
\* FBackroomGenerationConfig, and a configuration of large rooms, a greater
\* room height and the hallway ranges of the DummyConfig.
SuppliedSizeConfigs ==
    { [StandardRoomHeight |-> 3, MinRoomSize |-> 20, MaxRoomSize |-> 150,
       Hallway |-> DefaultHallwayConfig],
      [StandardRoomHeight |-> 4, MinRoomSize |-> 100, MaxRoomSize |-> 120,
       Hallway |-> DummyConfig] }

\* Draws explored for GenerateStandardRoomDimensions.
StandardRoomDraws == [Base : {0, 50, 99}, Variation : {0, 99}, Side : {0, 1}]

\* ------------------------------------------------------------------------
\* Strategies/RoomStrategyFactory.cpp : connection-aware strategy selection
\* ------------------------------------------------------------------------
\* Probabilities are integers in units of 1/RatioUnit.
RatioUnit == 10000

CalculateNormalizedProbabilities(Cfg) ==
    LET Standard == Max2(0, Cfg.RoomRatio)
        Hallway == Max2(0, Cfg.HallwayRatio)
        Stairs == Max2(0, Cfg.StairRatio)
        Total == Standard + Hallway + Stairs
    IN IF Total > 0
       THEN [Standard |-> (Standard * RatioUnit) \div Total,
             Hallway |-> (Hallway * RatioUnit) \div Total,
             Stairs |-> (Stairs * RatioUnit) \div Total]
       ELSE [Standard |-> (33 * RatioUnit) \div 100,
             Hallway |-> (33 * RatioUnit) \div 100,
             Stairs |-> (34 * RatioUnit) \div 100]

ApplyContextBias(SourceRoom, P) ==
    LET B == CASE SourceRoom.Category = "Room" ->
                    [Standard |-> P.Standard,
                     Hallway |-> (P.Hallway * 13) \div 10,
                     Stairs |-> (P.Stairs * 8) \div 10]
               [] SourceRoom.Category = "Hallway" ->
                    [Standard |-> (P.Standard * 14) \div 10,
                     Hallway |-> (P.Hallway * 6) \div 10,
                     Stairs |-> (P.Stairs * 12) \div 10]
               [] SourceRoom.Category = "Stairs" ->
                    [Standard |-> (P.Standard * 18) \div 10,
                     Hallway |-> (P.Hallway * 11) \div 10,
                     Stairs |-> (P.Stairs * 3) \div 10]
               [] OTHER -> P
        AbsElevation == Abs(SourceRoom.Elevation)
        E == IF SourceRoom.Category # "Stairs" THEN B
             ELSE IF AbsElevation > 1500
                  THEN [B EXCEPT !.Stairs = B.Stairs \div 10,
                                 !.Standard = (B.Standard * 15) \div 10]
             ELSE IF AbsElevation > 800
                  THEN [B EXCEPT !.Stairs = B.Stairs \div 2,
                                 !.Standard = (B.Standard * 12) \div 10]
             ELSE B
    IN [Standard |-> Max2(RatioUnit \div 100, E.Standard),
        Hallway |-> Max2(RatioUnit \div 100, E.Hallway),
        Stairs |-> Max2(RatioUnit \div 100, E.Stairs)]

\* The category of the strategy returned.  RandomValue is the random value in
\* units of 1/RatioUnit; the comparison RandomValue < Ratio / Total is made
\* without the division.
CreateConnectedRoomStrategy(Cfg, SourceRoom, RandomValue) ==
    LET P == ApplyContextBias(SourceRoom, CalculateNormalizedProbabilities(Cfg))
        Total == P.Standard + P.Hallway + P.Stairs
    IN IF RandomValue * Total < P.Standard * RatioUnit THEN "Room"
       ELSE IF RandomValue * Total < (P.Standard + P.Hallway) * RatioUnit THEN "Hallway"
       ELSE "Stairs"

\* Ratio triples <<RoomRatio, HallwayRatio, StairRatio>> of the selection
\* calls, in percent.
SelectionRatios ==
    RatioConfigs \cup { <<0, 0, 0>>, <<60, 30, 10>>, <<50, 50, 0>> }

\* Random.RandRange(0.0f, 1.0f): values between 0 and 1, both ends included,
\* in units of 1/RatioUnit.
SelectionRandomValues == {0, RatioUnit \div 2, (99 * RatioUnit) \div 100, RatioUnit}

\* ------------------------------------------------------------------------
\* Calls of one function on its own
\* ------------------------------------------------------------------------
\* A call is drawn with its inputs in the initial state; the action of the
\* function adds the result.  The orchestrator is idle meanwhile.
orchestratorVars ==
    <<Config, bRoomCreatorWorks, OutGeneratedRooms, AvailableRooms, MainLoopCounter,
      ConnectionRetryCounter, PlacementAttemptCounter, bStoppedBySafety,
      bTimeExceeded, bEmergencyExit, RoomIndex, bRoomPlaced, ConnectionRetries,
      RandomRoomIndex, ConnectionIndex, Attempt, pc, ReturnValue, SafetyTrips,
      PlacedFrom>>

\* Configurations of the service calls: the connection manager and the
\* collision service read only the geometry and connection fields.
ServiceConfigs ==
    { c \in Configs : /\ c.TotalRooms = 1
                      /\ c.RoomRatio = 100
                      /\ c.MaxAttemptsPerConnection = 1
                      /\ c.MaxConnectionRetries = 1
                      /\ c.MaxSafetyIterations = 2000 }

OrchestratorIdle ==
    /\ Config \in ServiceConfigs
    /\ bRoomCreatorWorks = TRUE
    /\ OutGeneratedRooms = << >>
    /\ AvailableRooms = << >>
    /\ MainLoopCounter = 0
    /\ ConnectionRetryCounter = 0
    /\ PlacementAttemptCounter = 0
    /\ bStoppedBySafety = FALSE
    /\ bTimeExceeded = FALSE
    /\ bEmergencyExit = FALSE
    /\ RoomIndex = 1
    /\ bRoomPlaced = FALSE
    /\ ConnectionRetries = 0
    /\ RandomRoomIndex = -1
    /\ ConnectionIndex = -1
    /\ Attempt = 0
    /\ pc = "Idle"
    /\ ReturnValue = -1
    /\ SafetyTrips = 0
    /\ PlacedFrom = << >>

\* A unit as it stands in the unit list: generated by a strategy, positioned,
\* with the connections CreateRoomConnections gave it.
PlacedRoom(Category, Index, Width, Length, Elevation, Direction, Position, Cfg) ==
    CreateRoomConnections(
        [InitializeBaseRoomData(Category, Index) EXCEPT
            !.Width = Width, !.Length = Length, !.Elevation = Elevation,
            !.StairDirection = Direction, !.Position = Position, !.RoomUnit = TRUE],
        Cfg)

\* Source units of the TryPlaceRoom calls.  A Room or Hallway has elevation 0,
\* or the elevation it inherited from the Stairs unit it was attached to.
SourceRooms(Cfg) ==
    { PlacedRoom("Room", 0, 5, 5, e, "None", ZeroVector, Cfg) : e \in {0, 200, -200} }
    \cup { PlacedRoom("Hallway", 0, 3, 12, e, "None", ZeroVector, Cfg) :
             e \in {0, 200, -200} }
    \cup { PlacedRoom("Stairs", 0, 4, 4, e, d, ZeroVector, Cfg) :
             e \in {200, -200}, d \in {"North", "West"} }

\* Candidates as the three strategies generate them.
CandidateRooms ==
    StandardRoomGenerateRoom(1) \cup HallwayGenerateRoom(1) \cup StairsGenerateRoom(1)

TryPlaceRoomCalls(Cfg) ==
    UNION { { [Op |-> "TryPlaceRoom", Done |-> FALSE, SourceRoom |-> src,
               ConnectionIndex |-> c, NewRoom |-> new, ExistingRooms |-> << src >>] :
                c \in { At(GetAvailableConnections(src), k) :
                          k \in 0..(Len(GetAvailableConnections(src)) - 1) },
                new \in CandidateRooms } : src \in SourceRooms(Cfg) }

CallTryPlaceRoom ==
    /\ Call.Op = "TryPlaceRoom"
    /\ ~Call.Done
    /\ Call' = [Op |-> Call.Op, Done |-> TRUE, SourceRoom |-> Call.SourceRoom,
                ConnectionIndex |-> Call.ConnectionIndex, NewRoom |-> Call.NewRoom,
                ExistingRooms |-> Call.ExistingRooms,
                Out |-> TryPlaceRoom(Call.SourceRoom, Call.ConnectionIndex, Call.NewRoom,
                                     Call.ExistingRooms, Config, bRoomCreatorWorks)]
    /\ UNCHANGED orchestratorVars

\* Units joined by the ConnectRooms calls: the initial room, a room with one
\* dimension a sixth longer than the other, a hallway, a stairs unit, and a
\* room the RoomCreator callback left without a room unit.
JoinedRooms(Index, Cfg) ==
    { PlacedRoom("Room", Index, 5, 5, 0, "None", ZeroVector, Cfg),
      PlacedRoom("Room", Index, 7, 6, 0, "None", ZeroVector, Cfg),
      PlacedRoom("Hallway", Index, 3, 12, 0, "None", ZeroVector, Cfg),
      PlacedRoom("Stairs", Index, 4, 4, 200, "West", ZeroVector, Cfg),
      RoomCreator(PlacedRoom("Room", Index, 8, 8, 0, "None", ZeroVector, Cfg), FALSE) }

\* Connection index pairs of the ConnectRooms calls: the pairs the orchestrator
\* passes (a connection and GetOppositeWallIndex of it), and pairs with an
\* index below 0 or equal to the number of connections of a room.
ConnectIndexPairs ==
    { <<c, GetOppositeWallIndex(c)>> : c \in 0..(CONNECTIONS_PER_ROOM - 1) }
    \cup { <<-1, 0>>, <<CONNECTIONS_PER_ROOM, 0>>, <<0, -1>>, <<0, CONNECTIONS_PER_ROOM>> }

\* Values of FRandRange(0.6, 0.8) in percent explored by the ConnectRooms calls.
ConnectOpeningRatios == {60, 79}

ConnectRoomsCalls(Cfg) ==
    { [Op |-> "ConnectRooms", Done |-> FALSE, Room1 |-> r1, Connection1Index |-> c[1],
       Room2 |-> r2, Connection2Index |-> c[2],
       rand |-> 50, openingRatio |-> o] :
        r1 \in JoinedRooms(0, Cfg), r2 \in JoinedRooms(1, Cfg),
        c \in ConnectIndexPairs, o \in ConnectOpeningRatios }

CallConnectRooms ==
    /\ Call.Op = "ConnectRooms"
    /\ ~Call.Done
    /\ Call' = [Op |-> Call.Op, Done |-> TRUE, Room1 |-> Call.Room1,
                Connection1Index |-> Call.Connection1Index, Room2 |-> Call.Room2,
                Connection2Index |-> Call.Connection2Index, rand |-> Call.rand,
                openingRatio |-> Call.openingRatio,
                Out |-> ConnectRooms(Call.Room1, Call.Connection1Index, Call.Room2,
                                     Call.Connection2Index, Config, Call.rand,
                                     Call.openingRatio)]
    /\ UNCHANGED orchestratorVars

\* Units handed to ValidateRoomBounds and to the collision check: well-formed
\* units, units with a non-positive or oversized dimension or an extreme
\* elevation, and Stairs units that go down (negative elevation).
BoundsRooms(Cfg) ==
    { PlacedRoom("Room", 1, d[1], d[2], 0, "None", ZeroVector, Cfg) :
        d \in {<<8, 8>>, <<0, 8>>, <<8, -1>>, <<101, 8>>, <<100, 100>>} }
    \cup { PlacedRoom("Room", 1, 8, 8, e, "None", ZeroVector, Cfg) :
             e \in {10000, 10001, -10001} }
    \cup { [PlacedRoom("Room", 1, 8, 8, 0, "None", ZeroVector, Cfg) EXCEPT !.Height = h] :
             h \in {0, 101} }
    \cup { PlacedRoom("Stairs", 1, 4, 4, e, "South", ZeroVector, Cfg) :
             e \in {200, -200, -3, -2} }

ValidateRoomBoundsCalls(Cfg) ==
    { [Op |-> "ValidateRoomBounds", Done |-> FALSE, Room |-> r] : r \in BoundsRooms(Cfg) }

CallValidateRoomBounds ==
    /\ Call.Op = "ValidateRoomBounds"
    /\ ~Call.Done
    /\ Call' = [Op |-> Call.Op, Done |-> TRUE, Room |-> Call.Room,
                Out |-> ValidateRoomBounds(Call.Room)]
    /\ UNCHANGED orchestratorVars

\* Units of the collision-check calls.  The unit at elevation 300 was attached
\* to a Stairs unit: its position is lowered by its elevation, so that its box
\* lies at the height of the units at elevation 0.
CollisionRooms(Cfg) ==
    { PlacedRoom("Room", 0, 5, 5, 0, "None", ZeroVector, Cfg),
      PlacedRoom("Room", 1, 8, 8, 0, "None", Vec(100, 100, 0), Cfg),
      PlacedRoom("Room", 1, 8, 8, 0, "None", Vec(2000, 0, 0), Cfg),
      PlacedRoom("Room", 1, 8, 8, 300, "None", Vec(100, 100, -30000), Cfg),
      PlacedRoom("Room", 1, 0, 8, 0, "None", ZeroVector, Cfg),
      PlacedRoom("Stairs", 1, 4, 4, -200, "South", Vec(100, 100, 0), Cfg) }

ExistingRoomLists(Cfg) ==
    { << >> } \cup { << a >> : a \in CollisionRooms(Cfg) }
    \cup { << a, b >> : a \in CollisionRooms(Cfg),
                        b \in { PlacedRoom("Room", 0, 5, 5, 0, "None", ZeroVector, Cfg) } }

CheckRoomCollisionCalls(Cfg) ==
    { [Op |-> "CheckRoomCollisionExcluding", Done |-> FALSE, TestRoom |-> t,
       ExistingRooms |-> ex, ExcludeRoomIndex |-> x] :
        t \in CollisionRooms(Cfg), ex \in ExistingRoomLists(Cfg), x \in {-1, 0, 1} }

CallCheckRoomCollisionExcluding ==
    /\ Call.Op = "CheckRoomCollisionExcluding"
    /\ ~Call.Done
    /\ Call' = [Op |-> Call.Op, Done |-> TRUE, TestRoom |-> Call.TestRoom,
                ExistingRooms |-> Call.ExistingRooms,
                ExcludeRoomIndex |-> Call.ExcludeRoomIndex,
                Out |-> CheckRoomCollisionExcluding(Call.TestRoom, Call.ExistingRooms,
                                                    Call.ExcludeRoomIndex, Config)]
    /\ UNCHANGED orchestratorVars

HallwayCalls ==
    { [Op |-> "GenerateHallwayDimensions", Done |-> FALSE, Cfg |-> c, Draws |-> d] :
        c \in HallwayConfigs, d \in HallwayDraws }

CallGenerateHallwayDimensions ==
    /\ Call.Op = "GenerateHallwayDimensions"
    /\ ~Call.Done
    /\ Call' = [Op |-> Call.Op, Done |-> TRUE, Cfg |-> Call.Cfg, Draws |-> Call.Draws,
                Out |-> GenerateHallwayDimensions(Call.Cfg, Call.Draws)]
    /\ UNCHANGED orchestratorVars

\* Units handed to CreateRoomConnections: positioned candidates of the three
\* categories, the Stairs ones with each ascent direction, going up and down.
CreateConnectionsPositions == {ZeroVector, Vec(100, -300, 50)}

CreateConnectionsRooms ==
    { [r EXCEPT !.Position = p, !.Elevation = e] :
        r \in StandardRoomGenerateRoom(1) \cup HallwayGenerateRoom(1),
        p \in CreateConnectionsPositions, e \in {0, 200} }
    \cup { [r EXCEPT !.Position = p, !.StairDirection = d] :
             r \in StairsGenerateRoom(1), p \in CreateConnectionsPositions,
             d \in {"North", "South", "East", "West"} }

CreateRoomConnectionsCalls ==
    { [Op |-> "CreateRoomConnections", Done |-> FALSE, Room |-> r] :
        r \in CreateConnectionsRooms }

CallCreateRoomConnections ==
    /\ Call.Op = "CreateRoomConnections"
    /\ ~Call.Done
    /\ Call' = [Op |-> Call.Op, Done |-> TRUE, Room |-> Call.Room,
                Out |-> CreateRoomConnections(Call.Room, Config)]
    /\ UNCHANGED orchestratorVars

\* Calls of GenerateRoomOfCategory for a Room or a Hallway during a run whose
\* configuration is Cfg; the function is not handed that configuration.
GenerateRoomOfCategoryCalls ==
    { [Op |-> "GenerateRoomOfCategory", Done |-> FALSE, Cfg |-> c,
       Category |-> "Room", Draws |-> d] :
        c \in SuppliedSizeConfigs, d \in StandardRoomDraws }
    \cup { [Op |-> "GenerateRoomOfCategory", Done |-> FALSE, Cfg |-> c,
            Category |-> "Hallway", Draws |-> d] :
             c \in SuppliedSizeConfigs, d \in HallwayDraws }

CallGenerateRoomOfCategory ==
    /\ Call.Op = "GenerateRoomOfCategory"
    /\ ~Call.Done
    /\ Call' = [Op |-> Call.Op, Done |-> TRUE, Cfg |-> Call.Cfg,
                Category |-> Call.Category, Draws |-> Call.Draws,
                Out |-> GenerateRoomOfCategoryDimensions(Call.Category, Call.Draws)]
    /\ UNCHANGED orchestratorVars

\* Source units of the selection calls.
SelectionSources(Cfg) ==
    { PlacedRoom("Room", 0, 5, 5, 0, "None", ZeroVector, Cfg),
      PlacedRoom("Hallway", 0, 3, 12, 0, "None", ZeroVector, Cfg) }
    \cup { PlacedRoom("Stairs", 0, 4, 4, e, "North", ZeroVector, Cfg) :
             e \in {200, -200, 900, 1600} }

CreateConnectedRoomStrategyCalls(Cfg) ==
    { [Op |-> "CreateConnectedRoomStrategy", Done |-> FALSE,
       Cfg |-> [RoomRatio |-> r[1], HallwayRatio |-> r[2], StairRatio |-> r[3]],
       SourceRoom |-> src, RandomValue |-> rv] :
        r \in SelectionRatios, src \in SelectionSources(Cfg),
        rv \in SelectionRandomValues }

CallCreateConnectedRoomStrategy ==
    /\ Call.Op = "CreateConnectedRoomStrategy"
    /\ ~Call.Done
    /\ Call' = [Op |-> Call.Op, Done |-> TRUE, Cfg |-> Call.Cfg,
                SourceRoom |-> Call.SourceRoom, RandomValue |-> Call.RandomValue,
                Out |-> CreateConnectedRoomStrategy(Call.Cfg, Call.SourceRoom,
                                                    Call.RandomValue)]
    /\ UNCHANGED orchestratorVars

ServiceCalls(Cfg) ==
    HallwayCalls \cup TryPlaceRoomCalls(Cfg) \cup ConnectRoomsCalls(Cfg)
    \cup ValidateRoomBoundsCalls(Cfg) \cup CheckRoomCollisionCalls(Cfg)
    \cup CreateRoomConnectionsCalls \cup GenerateRoomOfCategoryCalls
    \cup CreateConnectedRoomStrategyCalls(Cfg)

ServiceInit ==
    /\ OrchestratorIdle
    /\ Call \in ServiceCalls(Config)

ServiceNext ==
    \/ CallGenerateHallwayDimensions
    \/ CallTryPlaceRoom
    \/ CallConnectRooms
    \/ CallValidateRoomBounds
    \/ CallCheckRoomCollisionExcluding
    \/ CallCreateRoomConnections
    \/ CallGenerateRoomOfCategory
    \/ CallCreateConnectedRoomStrategy

ServiceSpec == ServiceInit /\ [][ServiceNext]_vars

\* ------------------------------------------------------------------------
\* Properties
\* ------------------------------------------------------------------------
Positions == 0..(Len(OutGeneratedRooms) - 1)

Unit(i) == At(OutGeneratedRooms, i)

\* The buffer-expanded box of unit i meets the box of unit j.
Overlap(i, j) ==
    Intersect(GetExpandedBounds(Unit(i), Config), GetBoundingBox(Unit(j)))

SameLevel(i, j) == ~AreRoomsOnDifferentLevels(Unit(i), Unit(j))

\* The list position that the collision check skipped when unit j was placed.
ExcludedAtPlacement(j) == At(PlacedFrom, j).Excluded

\* C1 as stated: for every pair of distinct committed units on the same level,
\* the source of a unit included, the buffer-expanded bounding box of one does
\* not intersect the bounding box of the other.
C1_NoOverlapAllPairs ==
    \A i \in Positions, j \in Positions :
        (i # j /\ SameLevel(i, j)) => ~Overlap(i, j)

\* C1 amended: for every pair of distinct committed units on the same level,
\* the buffer-expanded bounding box of one does not intersect the bounding box
\* of the other, except for the pair formed by a unit and the unit at the list
\* position its collision check skipped when it was placed (the position given
\* by the index field of its source).
C1_NoOverlapExceptExcluded ==
    \A i \in Positions, j \in Positions :
        (i < j /\ SameLevel(i, j) /\ ExcludedAtPlacement(j) # i)
            => (~Overlap(j, i) /\ ~Overlap(i, j))

\* Two units on the same level, neither skipped by the other's collision
\* check, are committed.
C1_Witness ==
    \E i \in Positions, j \in Positions :
        /\ i < j
        /\ SameLevel(i, j)
        /\ ExcludedAtPlacement(j) # i
        /\ Unit(i).Category = "Room"
        /\ Unit(j).Category = "Room"

WallOf(i, c) == At(Unit(i).Connections, c).WallSide

\* Connection c of the unit at position i has a partner: a committed unit at
\* the position named by its connected-unit index, with a used connection on
\* the geometrically opposite wall that names the index of unit i.
HasReciprocalPartner(i, c) ==
    LET k == At(Unit(i).Connections, c).ConnectedRoomIndex
    IN /\ k \in Positions
       /\ \E d \in 0..(Len(Unit(k).Connections) - 1) :
             /\ At(Unit(k).Connections, d).bIsUsed
             /\ At(Unit(k).Connections, d).ConnectedRoomIndex = Unit(i).RoomIndex
             /\ WallOf(k, d) = OppositeWall(WallOf(i, c))

\* C2: every connection marked used names a committed unit that has a used
\* connection on the geometrically opposite wall pointing back.
C2_Reciprocity ==
    \A i \in Positions :
        \A c \in 0..(Len(Unit(i).Connections) - 1) :
            At(Unit(i).Connections, c).bIsUsed => HasReciprocalPartner(i, c)

\* A Stairs unit has been committed and linked to its source.
C2_Witness ==
    \E i \in Positions :
        /\ Unit(i).Category = "Stairs"
        /\ \E c \in 0..(Len(Unit(i).Connections) - 1) :
              At(Unit(i).Connections, c).bIsUsed

\* C3: the run stops no later than the first safety check that trips: no
\* second check is made after one has tripped.
C3_StopsAtFirstTrippingCheck == SafetyTrips <= 1

\* A safety check has tripped in the attempt loop and the run has returned.
C3_Witness == pc = "Done" /\ SafetyTrips >= 1 /\ PlacementAttemptCounter >= Config.MaxSafetyIterations

\* C4: the unit list, the initial unit included, never holds more than
\* TotalRooms units, and the value returned is the number of units in it.
C4_CapRespected ==
    /\ Len(OutGeneratedRooms) <= Config.TotalRooms
    /\ pc = "Done" => ReturnValue = Len(OutGeneratedRooms)

\* A run has filled every slot and returned.
C4_Witness ==
    /\ pc = "Done"
    /\ Config.TotalRooms >= 3
    /\ Len(OutGeneratedRooms) = Config.TotalRooms

SourceOf(j) == Unit(At(PlacedFrom, j).Source)

\* C5: no Stairs unit is committed from a Stairs source, and for a Stairs
\* source every random value draws Room or Hallway.
C5_NoStairsAfterStairs ==
    /\ \A j \in Positions :
          (j >= 1 /\ Unit(j).Category = "Stairs") => SourceOf(j).Category # "Stairs"
    /\ (pc = "Attempt" /\ Unit(RandomRoomIndex).Category = "Stairs")
          => \A rv \in FRandValues :
                DetermineRoomCategory(Unit(RandomRoomIndex), Config, rv)
                    \in {"Room", "Hallway"}

\* A unit has been committed from a Stairs source under an all-stairs
\* configuration.
C5_Witness ==
    /\ Config.RoomRatio + Config.HallwayRatio = 0
    /\ \E j \in Positions : j >= 1 /\ SourceOf(j).Category = "Stairs"

ConnectionWalls(Room) == [c \in 1..Len(Room.Connections) |-> Room.Connections[c].WallSide]

CardinalityOk(Room) ==
    IF Room.Category = "Stairs"
    THEN ConnectionWalls(Room) = << OppositeWall(Room.StairDirection) >>
    ELSE ConnectionWalls(Room) = WallSides

C7_IndexIsPosition ==
    \A i \in Positions : Unit(i).RoomIndex = i

\* A slot has failed and a later slot has committed a unit.
C7_Witness ==
    /\ RoomIndex > Len(OutGeneratedRooms)
    /\ Len(OutGeneratedRooms) >= 3

\* C8: a run that returns with fewer than TotalRooms units and without a
\* safety stop returns with an empty frontier.
C8_ExhaustedOnlyWhenFrontierEmpty ==
    (pc = "Done" /\ Len(OutGeneratedRooms) < Config.TotalRooms /\ ~bStoppedBySafety)
        => AvailableRooms = << >>

\* A slot ended with its connection retries exhausted and nothing placed.
C8_Witness ==
    /\ pc = "Main"
    /\ ~bRoomPlaced
    /\ ~bStoppedBySafety
    /\ RoomIndex >= 2
    /\ AvailableRooms # << >>

\* C9: once a safety check has tripped the flag stays set and the unit list,
\* connections included, is never modified again; the flag is set only by a
\* check that tripped.
C9_SafetyStopFreezesUnits ==
    /\ [](bStoppedBySafety <=> SafetyTrips >= 1)
    /\ [][bStoppedBySafety =>
            (bStoppedBySafety' /\ OutGeneratedRooms' = OutGeneratedRooms)]_vars

\* A run with committed units was stopped by a safety check and returned.
C9_Witness ==
    /\ pc = "Done"
    /\ bStoppedBySafety
    /\ Len(OutGeneratedRooms) >= 2

\* C10: a candidate the unit builder failed to materialise is never in the
\* unit list.
C10_UnbuiltCandidateDiscarded ==
    \A i \in Positions : Unit(i).RoomUnit

\* The unit builder fails and a candidate has passed collision testing.
C10_Witness ==
    /\ ~bRoomCreatorWorks
    /\ Len(OutGeneratedRooms) >= 2

\* Connection c of unit u may become connection d of the same unit: nothing
\* changes, or an unused connection becomes used, keeping its wall side and
\* connection point.
ConnectionStepOk(c, d) ==
    \/ d = c
    \/ /\ ~c.bIsUsed
       /\ d.bIsUsed
       /\ d.WallSide = c.WallSide
       /\ d.ConnectionPoint = c.ConnectionPoint

\* Unit u may become unit v: every field but Connections is kept, the number
\* of connections is kept and every connection makes an allowed step.
UnitStepOk(u, v) ==
    /\ v = [u EXCEPT !.Connections = v.Connections]
    /\ Len(v.Connections) = Len(u.Connections)
    /\ \A c \in 1..Len(u.Connections) :
          ConnectionStepOk(u.Connections[c], v.Connections[c])

\* C11: the unit list is append-only: no step removes or reorders a unit, and
\* the only change a step makes to a committed unit is that an unused
\* connection of it becomes used; a used connection is never changed again.
C11_AppendOnly ==
    [][/\ Len(OutGeneratedRooms') >= Len(OutGeneratedRooms)
       /\ \A i \in Positions : UnitStepOk(Unit(i), At(OutGeneratedRooms', i))]_vars

\* The initial unit has had two of its connections used, one after the other.
C11_Witness ==
    /\ Len(OutGeneratedRooms) >= 3
    /\ Cardinality({c \in 1..Len(Unit(0).Connections) :
                       Unit(0).Connections[c].bIsUsed}) >= 2

\* A limit is reached in the state: a counter is at MaxSafetyIterations or the
\* last clock read found the elapsed time above MaxGenerationTime.
LimitReached ==
    \/ bTimeExceeded
    \/ MainLoopCounter >= Config.MaxSafetyIterations
    \/ ConnectionRetryCounter >= Config.MaxSafetyIterations
    \/ PlacementAttemptCounter >= Config.MaxSafetyIterations

\* C12: no counter exceeds MaxSafetyIterations; every step that increments a
\* counter makes a safety check on the incremented counters, which trips
\* exactly when a limit is reached; and a step that draws a connection, tests
\* a candidate or commits one ends with no limit reached.
C12_SafetyChecksGuardWork ==
    /\ [](/\ MainLoopCounter <= Config.MaxSafetyIterations
          /\ ConnectionRetryCounter <= Config.MaxSafetyIterations
          /\ PlacementAttemptCounter <= Config.MaxSafetyIterations)
    /\ [][/\ (\/ MainLoopCounter' # MainLoopCounter
              \/ ConnectionRetryCounter' # ConnectionRetryCounter
              \/ PlacementAttemptCounter' # PlacementAttemptCounter)
             => ((SafetyTrips' = SafetyTrips + 1) <=> LimitReached')
          /\ (\/ (pc = "Retry" /\ pc' = "Attempt")
              \/ Attempt' = Attempt + 1
              \/ Len(OutGeneratedRooms') > Len(OutGeneratedRooms))
             => ~LimitReached']_vars

\* The main loop counter reached MaxSafetyIterations and the run was stopped.
C12_Witness ==
    /\ pc = "Done"
    /\ bStoppedBySafety
    /\ ~bTimeExceeded
    /\ MainLoopCounter = Config.MaxSafetyIterations
    /\ Len(OutGeneratedRooms) >= 3

\* The call of function op has returned.
Returned(op) == Call.Op = op /\ Call.Done

\* The length sub-range of a hallway category under configuration Cfg.
HallwaySubRange(Cfg, Category) ==
    CASE Category = "Short" ->
           [Lo |-> Cfg.MinHallwayLength, Hi |-> Cfg.MediumHallwayThreshold]
      [] Category = "Medium" ->
           [Lo |-> Cfg.MediumHallwayThreshold, Hi |-> Cfg.LongHallwayThreshold]
      [] OTHER ->
           [Lo |-> Cfg.LongHallwayThreshold, Hi |-> Cfg.MaxHallwayLength]

\* C13: the larger dimension of every hallway GenerateHallwayDimensions
\* returns lies in the length sub-range of the category that was drawn.
C13_HallwayLengthInCategoryRange ==
    Returned("GenerateHallwayDimensions") =>
        LET R == HallwaySubRange(Call.Cfg, Call.Out.Category)
            Larger == Max2(Call.Out.Width, Call.Out.Length)
        IN R.Lo <= Larger /\ Larger <= R.Hi

\* A medium hallway was drawn under the default configuration and the
\* validation fallback replaced its dimensions.
C13_Witness ==
    /\ Returned("GenerateHallwayDimensions")
    /\ Call.Cfg = DefaultHallwayConfig
    /\ Call.Out.Category = "Medium"
    /\ Call.Out.Length > Call.Cfg.LongHallwayThreshold

\* The connection of Room1 and the connection of Room2 a ConnectRooms call joined.
JoinedConnection1 == At(Call.Out.Room1.Connections, Call.Connection1Index)

JoinedConnection2 == At(Call.Out.Room2.Connections, Call.Connection2Index)

\* The call joined two units: both connection indices were valid.
Joined ==
    /\ Returned("ConnectRooms")
    /\ InRange(Call.Room1.Connections, Call.Connection1Index)
    /\ InRange(Call.Room2.Connections, Call.Connection2Index)

\* The smaller of the spans, in centimetres, of the two walls a ConnectRooms
\* call joined: the width of a unit for a North or South wall, its length for
\* an East or West wall.
SmallerJoinedSpan ==
    Min2(GetWallSize(Call.Room1, JoinedConnection1.WallSide),
         GetWallSize(Call.Room2, JoinedConnection2.WallSide)) * METERS_TO_UNREAL_UNITS

\* C14: after ConnectRooms joins two units both connections carry the same
\* type and width; a Doorway has width StandardDoorwayWidth, and an Opening has
\* a width between StandardDoorwayWidth and 0.9 times the smaller span of the
\* two walls joined, whenever StandardDoorwayWidth is at most that limit.
C14_ConnectionWidth ==
    Joined =>
        /\ JoinedConnection2.ConnectionType = JoinedConnection1.ConnectionType
        /\ JoinedConnection2.ConnectionWidth = JoinedConnection1.ConnectionWidth
        /\ JoinedConnection1.ConnectionType = "Doorway"
              => JoinedConnection1.ConnectionWidth = Config.StandardDoorwayWidth
        /\ (/\ JoinedConnection1.ConnectionType = "Opening"
            /\ Config.StandardDoorwayWidth * 10 <= SmallerJoinedSpan * 9)
              => /\ Config.StandardDoorwayWidth <= JoinedConnection1.ConnectionWidth
                 /\ JoinedConnection1.ConnectionWidth * 10 <= SmallerJoinedSpan * 9

\* Two rooms were joined by an Opening on an East and a West wall.
C14_Witness ==
    /\ Joined
    /\ JoinedConnection1.ConnectionType = "Opening"
    /\ JoinedConnection1.WallSide = "East"
    /\ JoinedConnection2.WallSide = "West"
    /\ Call.Room1.Category = "Room"
    /\ Call.Room2.Category = "Room"

\* The connection point of the source connection a TryPlaceRoom call used.
SourceConnectionPoint ==
    At(Call.SourceRoom.Connections, Call.ConnectionIndex).ConnectionPoint

\* Floor height of a unit in the position unit: position.z plus the elevation
\* converted to the position unit.
FloorHeight(Room) == Room.Position.Z + Room.Elevation * METERS_TO_UNREAL_UNITS

\* C15: a candidate attached to a Stairs source leaves TryPlaceRoom with the
\* elevation of the source and with a position whose z plus that elevation (in
\* the position unit) is the z of the source's connection point; a candidate
\* attached to any other source keeps the elevation it was generated with.
C15_StairsSourceElevation ==
    Returned("TryPlaceRoom") =>
        IF Call.SourceRoom.Category = "Stairs"
        THEN /\ Call.Out.Room.Elevation = Call.SourceRoom.Elevation
             /\ FloorHeight(Call.Out.Room) = SourceConnectionPoint.Z
        ELSE Call.Out.Room.Elevation = Call.NewRoom.Elevation

\* A candidate generated at elevation 0 was attached to a Stairs source that
\* goes down.
C15_Witness ==
    /\ Returned("TryPlaceRoom")
    /\ Call.SourceRoom.Category = "Stairs"
    /\ Call.SourceRoom.Elevation < 0
    /\ Call.NewRoom.Elevation = 0
    /\ Call.Out.Placed

\* C20: a candidate attached to a Room or Hallway source is positioned on the
\* floor of the source: its floor height equals the floor height of the
\* source, whatever the elevation of the source.
C20_SameFloorAsSource ==
    (Returned("TryPlaceRoom") /\ Call.SourceRoom.Category \in {"Room", "Hallway"})
        => FloorHeight(Call.Out.Room) = FloorHeight(Call.SourceRoom)

\* A Room candidate was attached to a Room source that stands at the elevation
\* it inherited from a Stairs unit.
C20_Witness ==
    /\ Returned("TryPlaceRoom")
    /\ Call.SourceRoom.Category = "Room"
    /\ Call.SourceRoom.Elevation > 0
    /\ Call.NewRoom.Category = "Room"
    /\ Call.Out.Placed

\* Positive dimensions of at most 100 m and an elevation of at most 10000 in
\* absolute value.
PassesBoundsValidation(Room) ==
    /\ Room.Width > 0 /\ Room.Length > 0 /\ Room.Height > 0
    /\ Room.Width <= MaxDimension /\ Room.Length <= MaxDimension
    /\ Room.Height <= MaxDimension
    /\ Abs(Room.Elevation) <= MaxElevation

\* The intervals [aMin, aMax] and [bMin, bMax] of one axis meet.
AxisMeets(aMin, aMax, bMin, bMax) == aMin <= bMax /\ bMin <= aMax

\* The box of Test, expanded by buffer on every side, meets the box of Other.
ExpandedBoxMeets(Test, Other, buffer) ==
    LET T == GetBoundingBox(Test)
        O == GetBoundingBox(Other)
    IN /\ AxisMeets(T.Min.X - buffer, T.Max.X + buffer, O.Min.X, O.Max.X)
       /\ AxisMeets(T.Min.Y - buffer, T.Max.Y + buffer, O.Min.Y, O.Max.Y)
       /\ AxisMeets(T.Min.Z - buffer, T.Max.Z + buffer, O.Min.Z, O.Max.Z)

\* C18: the collision check returns true exactly when ValidateRoomBounds
\* rejects the candidate, or some unit of the list at a position other than
\* the excluded one is accepted by ValidateRoomBounds and has a box that meets
\* the candidate's box expanded by CollisionBuffer; the elevation difference of
\* the two units plays no part.
C18_CollisionCheckResult ==
    Returned("CheckRoomCollisionExcluding") =>
        (Call.Out <=>
            \/ ~ValidateRoomBounds(Call.TestRoom)
            \/ \E i \in 0..(Len(Call.ExistingRooms) - 1) :
                  /\ i # Call.ExcludeRoomIndex
                  /\ ValidateRoomBounds(At(Call.ExistingRooms, i))
                  /\ ExpandedBoxMeets(Call.TestRoom, At(Call.ExistingRooms, i),
                                      Config.CollisionBuffer))

\* A collision was reported between two valid units whose elevations differ by
\* more than the level separation.
C18_Witness ==
    /\ Returned("CheckRoomCollisionExcluding")
    /\ Call.Out
    /\ ValidateRoomBounds(Call.TestRoom)
    /\ Len(Call.ExistingRooms) = 1
    /\ Call.ExcludeRoomIndex # 0
    /\ AreRoomsOnDifferentLevels(Call.TestRoom, At(Call.ExistingRooms, 0))

\* The bounding box of Room is degenerate: on some axis its maximum is not
\* above its minimum.
DegenerateBox(Room) ==
    LET B == GetBoundingBox(Room)
    IN B.Max.X <= B.Min.X \/ B.Max.Y <= B.Min.Y \/ B.Max.Z <= B.Min.Z

\* C19: ValidateRoomBounds returns false for a unit with a non-positive
\* dimension, a dimension above 100 m, an absolute elevation above 10000 or a
\* degenerate bounding box, and true for every other unit.
C19_ValidateBoundsRejects ==
    Returned("ValidateRoomBounds") =>
        (Call.Out <=> (PassesBoundsValidation(Call.Room) /\ ~DegenerateBox(Call.Room)))

\* A Stairs unit that goes down, with height + elevation below 0, was validated.
C19_Witness ==
    /\ Returned("ValidateRoomBounds")
    /\ Call.Room.Category = "Stairs"
    /\ Call.Room.Height + Call.Room.Elevation < 0

\* The connection of its source through which the unit at position j was
\* committed.
SourceConnectionOf(j) == At(SourceOf(j).Connections, At(PlacedFrom, j).Connection)

\* C17: once the connect step of a slot has run, the source connection through
\* which the new unit was committed is used and names the new unit, and the
\* new unit has a used connection that names its source; so every unit but the
\* initial one is linked to its source.
C17_CommitIsLinked ==
    pc # "Crashed" =>
        \A j \in Positions :
            j >= 1 =>
                /\ SourceConnectionOf(j).bIsUsed
                /\ SourceConnectionOf(j).ConnectedRoomIndex = Unit(j).RoomIndex
                /\ \E d \in 1..Len(Unit(j).Connections) :
                      /\ Unit(j).Connections[d].bIsUsed
                      /\ Unit(j).Connections[d].ConnectedRoomIndex = SourceOf(j).RoomIndex

\* A Stairs unit was committed through the North connection of its source and
\* the connect step has run.
C17_Witness ==
    /\ pc # "Crashed"
    /\ \E j \in Positions :
          /\ j >= 1
          /\ Unit(j).Category = "Stairs"
          /\ At(PlacedFrom, j).Connection = 0

\* C16: with TotalRooms = 1, once the run has started the unit list holds
\* exactly the initial unit, nothing of its earlier content, the loop body is
\* never entered, the three counters are 0, no safety check has tripped, the
\* safety flag is false, and the run returns 1.
C16_SingleUnitRun ==
    (Config.TotalRooms = 1 /\ pc # "Start") =>
        /\ OutGeneratedRooms = << InitialRoom(Config) >>
        /\ pc \in {"Main", "Done"}
        /\ MainLoopCounter = 0
        /\ ConnectionRetryCounter = 0
        /\ PlacementAttemptCounter = 0
        /\ SafetyTrips = 0
        /\ ~bStoppedBySafety
        /\ ~bEmergencyExit
        /\ pc = "Done" => ReturnValue = 1

\* A run with TotalRooms = 1 and a safety limit of 3 iterations has returned.
C16_Witness ==
    /\ Config.TotalRooms = 1
    /\ Config.MaxSafetyIterations < 2000
    /\ pc = "Done"
    /\ ReturnValue = 1

\* The centre of wall WallSide of Room at height z.
WallCentre(Room, WallSide, z) ==
    LET HalfW == (Room.Width * METERS_TO_UNREAL_UNITS) \div 2
        HalfL == (Room.Length * METERS_TO_UNREAL_UNITS) \div 2
        X == Room.Position.X
        Y == Room.Position.Y
    IN CASE WallSide = "North" -> Vec(X + HalfW, Y + 2 * HalfL, z)
         [] WallSide = "South" -> Vec(X + HalfW, Y, z)
         [] WallSide = "East"  -> Vec(X + 2 * HalfW, Y + HalfL, z)
         [] WallSide = "West"  -> Vec(X, Y + HalfL, z)

\* C21: CreateRoomConnections gives a Stairs unit one connection, on the wall
\* opposite the ascent direction, with its point at the centre of that wall and
\* at z = position.z whatever the elevation and height of the unit; it gives a
\* Room or Hallway four connections, one per wall, each with its point at the
\* centre of its wall and at z = position.z plus the elevation in the position
\* unit.
C21_ConnectionPoints ==
    Returned("CreateRoomConnections") =>
        LET R == Call.Out
        IN IF R.Category = "Stairs"
           THEN /\ ConnectionWalls(R) = << OppositeWall(R.StairDirection) >>
                /\ R.Connections[1].ConnectionPoint =
                      WallCentre(R, OppositeWall(R.StairDirection), R.Position.Z)
           ELSE /\ ConnectionWalls(R) = WallSides
                /\ \A c \in 1..Len(R.Connections) :
                      R.Connections[c].ConnectionPoint =
                          WallCentre(R, R.Connections[c].WallSide, FloorHeight(R))

\* The connections of a Stairs unit that ascends to the North by a non-zero
\* elevation were created.
C21_Witness ==
    /\ Returned("CreateRoomConnections")
    /\ Call.Out.Category = "Stairs"
    /\ Call.Out.StairDirection = "North"
    /\ Call.Out.Elevation > 0
    /\ Len(Call.Out.Connections) = 1

\* The opening request ConnectRooms is to make on a unit for the connection it
\* joined.
OpeningRequest(Room, Connection) ==
    [RoomIndex |-> Room.RoomIndex, WallSide |-> Connection.WallSide,
     Type |-> Connection.ConnectionType, Width |-> Connection.ConnectionWidth]

\* C22: after ConnectRooms is called with two valid connection indices both
\* connections are used, carry the same type and the same width, the first
\* names the index of the second unit and the second the index of the first;
\* nothing else of either unit is changed; and one opening is requested on each
\* unit, on the wall side of its connection, with that type and width.
C22_ConnectMarksAndRequests ==
    Joined =>
        /\ JoinedConnection1.bIsUsed
        /\ JoinedConnection2.bIsUsed
        /\ JoinedConnection2.ConnectionType = JoinedConnection1.ConnectionType
        /\ JoinedConnection2.ConnectionWidth = JoinedConnection1.ConnectionWidth
        /\ JoinedConnection1.ConnectedRoomIndex = Call.Room2.RoomIndex
        /\ JoinedConnection2.ConnectedRoomIndex = Call.Room1.RoomIndex
        /\ JoinedConnection1.WallSide =
              At(Call.Room1.Connections, Call.Connection1Index).WallSide
        /\ JoinedConnection2.WallSide =
              At(Call.Room2.Connections, Call.Connection2Index).WallSide
        /\ Call.Out.Room1 =
              [Call.Room1 EXCEPT !.Connections[Call.Connection1Index + 1] =
                                      JoinedConnection1]
        /\ Call.Out.Room2 =
              [Call.Room2 EXCEPT !.Connections[Call.Connection2Index + 1] =
                                      JoinedConnection2]
        /\ Call.Out.Openings = << OpeningRequest(Call.Room1, JoinedConnection1),
                                  OpeningRequest(Call.Room2, JoinedConnection2) >>

\* A materialised room was joined to a room that has no room unit.
C22_Witness ==
    /\ Joined
    /\ Call.Room1.RoomUnit
    /\ ~Call.Room2.RoomUnit
    /\ JoinedConnection1.bIsUsed

\* C30: ConnectRooms called with a connection index that is negative or not
\* smaller than the number of connections of its unit, for either unit,
\* returns with both units unchanged and no opening requested.
C30_InvalidIndexNoChange ==
    (Returned("ConnectRooms") /\ ~Joined) =>
        /\ Call.Out.Room1 = Call.Room1
        /\ Call.Out.Room2 = Call.Room2
        /\ Call.Out.Openings = << >>

\* ConnectRooms returned from a call whose first index was valid and whose
\* second index was the number of connections of the second unit.
C30_Witness ==
    /\ Returned("ConnectRooms")
    /\ InRange(Call.Room1.Connections, Call.Connection1Index)
    /\ Call.Connection2Index = Len(Call.Room2.Connections)
    /\ Call.Room1.RoomUnit
    /\ Call.Room2.RoomUnit

\* C23: after the first safety check that trips no loop iteration begins: no
\* step taken after a trip increments the main-loop, connection-retry or
\* placement-attempt counter.
C23_ImmediateUnwinding ==
    [][SafetyTrips >= 1 =>
          /\ MainLoopCounter' = MainLoopCounter
          /\ ConnectionRetryCounter' = ConnectionRetryCounter
          /\ PlacementAttemptCounter' = PlacementAttemptCounter]_vars

\* The safety check of the placement-attempt loop tripped on the attempt
\* counter, inside TryGenerateConnectedRoom, and the run has returned.
C23_Witness ==
    /\ pc = "Done"
    /\ bStoppedBySafety
    /\ ~bTimeExceeded
    /\ PlacementAttemptCounter = Config.MaxSafetyIterations
    /\ MainLoopCounter < Config.MaxSafetyIterations

\* The list positions of the committed units that have an unused connection.
OpenPositions ==
    { i \in Positions : Len(GetAvailableConnections(Unit(i))) > 0 }

FrontierEntries == { AvailableRooms[k] : k \in 1..Len(AvailableRooms) }

\* C24: after the prune that ends a slot the frontier holds no entry twice and
\* its entries are exactly the list positions of the committed units with an
\* unused connection; and when a connection-retry iteration starts, every
\* frontier entry is the position of a unit with an unused connection.
C24_FrontierAfterPrune ==
    /\ (pc = "Main" /\ RoomIndex >= 2) =>
          /\ Cardinality(FrontierEntries) = Len(AvailableRooms)
          /\ FrontierEntries = OpenPositions
    /\ (pc = "Retry" /\ RetryLoopCondition) => FrontierEntries \subseteq OpenPositions

\* A slot failed, a later slot committed a unit, and the prune of that slot
\* has run.
C24_Witness ==
    /\ pc = "Main"
    /\ bRoomPlaced
    /\ RoomIndex > Len(OutGeneratedRooms)
    /\ Len(OutGeneratedRooms) >= 3
    /\ Len(GetAvailableConnections(Unit(Len(OutGeneratedRooms) - 1))) > 0

\* v lies in the range [lo, hi].
Within(v, lo, hi) == lo <= v /\ v <= hi

\* C25: a candidate generated during a run is generated from the configuration
\* of the run: a Room has width and length within [MinRoomSize, MaxRoomSize],
\* a Hallway has its shorter dimension within the configured hallway width
\* range and its longer dimension within the configured hallway length range,
\* and the height of the unit is StandardRoomHeight of that configuration.
C25_GeneratedFromSuppliedConfig ==
    Returned("GenerateRoomOfCategory") =>
        LET Cfg == Call.Cfg
            R == Call.Out
        IN /\ R.Height = Cfg.StandardRoomHeight
           /\ R.Category = "Room" =>
                 /\ Within(R.Width, Cfg.MinRoomSize, Cfg.MaxRoomSize)
                 /\ Within(R.Length, Cfg.MinRoomSize, Cfg.MaxRoomSize)
           /\ R.Category = "Hallway" =>
                 /\ Within(Min2(R.Width, R.Length), Cfg.Hallway.MinHallwayWidth,
                           Cfg.Hallway.MaxHallwayWidth)
                 /\ Within(Max2(R.Width, R.Length), Cfg.Hallway.MinHallwayLength,
                           Cfg.Hallway.MaxHallwayLength)

\* A Room candidate was generated during a run configured for rooms of 10 to
\* 12 m.
C25_Witness ==
    /\ Returned("GenerateRoomOfCategory")
    /\ Call.Category = "Room"
    /\ Call.Cfg.MinRoomSize = 100
    /\ Call.Out.Width > 0

\* C26: CreateConnectedRoomStrategy never returns the Stairs strategy for a
\* Stairs source, whatever the ratios, the elevation of the source and the
\* random value.
C26_NoStairsStrategyForStairsSource ==
    (Returned("CreateConnectedRoomStrategy") /\ Call.SourceRoom.Category = "Stairs")
        => Call.Out \in {"Room", "Hallway"}

\* A strategy was selected for a Stairs source under a configuration without
\* stairs and a random value of one half.
C26_Witness ==
    /\ Returned("CreateConnectedRoomStrategy")
    /\ Call.SourceRoom.Category = "Stairs"
    /\ Call.Cfg.StairRatio = 0
    /\ Call.Cfg.RoomRatio > 0
    /\ Call.RandomValue = RatioUnit \div 2

\* C27: in every reachable state the placement-attempt counter is at most the
\* connection-retry counter times MaxAttemptsPerConnection, the
\* connection-retry counter is at most the main-loop counter times
\* MaxConnectionRetries, and the number of committed units minus one is at
\* most the main-loop counter, which is at most TotalRooms - 1; within a slot
\* at most MaxConnectionRetries connections are selected and at most
\* MaxAttemptsPerConnection candidates are tested for a connection.
C27_RetryBounds ==
    /\ PlacementAttemptCounter <= ConnectionRetryCounter * Config.MaxAttemptsPerConnection
    /\ ConnectionRetryCounter <= MainLoopCounter * Config.MaxConnectionRetries
    /\ Len(OutGeneratedRooms) - 1 <= MainLoopCounter
    /\ MainLoopCounter <= Config.TotalRooms - 1
    /\ ConnectionRetries <= Config.MaxConnectionRetries
    /\ Attempt <= Config.MaxAttemptsPerConnection

\* A run with two retries per slot and two attempts per connection had a slot
\* in which both attempts on the first connection failed and a second
\* connection was selected, committed three units and returned.
C27_Witness ==
    /\ pc = "Done"
    /\ Config.MaxConnectionRetries = 2
    /\ Config.MaxAttemptsPerConnection = 2
    /\ Len(OutGeneratedRooms) >= 3
    /\ ConnectionRetryCounter > MainLoopCounter
    /\ PlacementAttemptCounter > ConnectionRetryCounter

\* C28: no step reads the unit list out of range: the frontier entry with
\* which a placement attempt is entered is a position of the unit list, and
\* when a unit has just been committed and is passed to ConnectRooms as
\* OutGeneratedRooms[RoomIndex], RoomIndex is smaller than the number of
\* committed units, so that no step is aborted by a range check.
C28_NoOutOfRangeAccess ==
    [][/\ pc' = "Attempt" => InRange(OutGeneratedRooms', RandomRoomIndex')
       /\ Len(OutGeneratedRooms') > Len(OutGeneratedRooms)
             => /\ InRange(OutGeneratedRooms', RandomRoomIndex)
                /\ InRange(OutGeneratedRooms', RoomIndex)
       /\ pc' # "Crashed"]_vars

\* A unit was committed in a slot whose RoomIndex is not a position of the
\* unit list, and the step that connects it has been taken.
C28_Witness ==
    /\ bRoomPlaced
    /\ RoomIndex >= Len(OutGeneratedRooms)
    /\ Len(OutGeneratedRooms) >= 3
    /\ Len(PlacedFrom) = Len(OutGeneratedRooms)

\* C29: the list position the collision check skipped when a unit was
\* committed is the position of its source; the buffer-expanded box of the unit
\* meets the box of no unit committed before it other than that source; and
\* every committed unit passes bounds validation, so that no unit is skipped
\* as invalid.
C29_CommitClearOfAllButSource ==
    /\ \A j \in Positions :
          j >= 1 =>
             /\ ExcludedAtPlacement(j) = At(PlacedFrom, j).Source
             /\ \A i \in 0..(j - 1) :
                   i # At(PlacedFrom, j).Source => ~Overlap(j, i)
    /\ \A i \in Positions : ValidateRoomBounds(Unit(i))

\* A unit that goes down from a unit other than the initial one was committed
\* after an earlier slot had failed.
C29_Witness ==
    /\ Len(OutGeneratedRooms) >= 3
    /\ At(PlacedFrom, Len(OutGeneratedRooms) - 1).Source >= 1
    /\ \E i \in Positions : Unit(i).Category = "Stairs" /\ Unit(i).Elevation < 0

=============================================================================
